---- MODULE Spec2Model ----
(***************************************************************************)
(* OnlineSchool V1 (GeniusTestBoost): the REST backend as a state machine. *)
(*                                                                         *)
(* The state is the six tables of the remote store, the server-side        *)
(* session of every client (cookie) and, per client, the request that is   *)
(* being served.  A handler is an async function: it runs from one await   *)
(* of a store operation to the next without interruption, and other        *)
(* requests run in between.  Every action below is one such segment: the   *)
(* store operation the handler awaits, executed atomically by the store,   *)
(* followed by the handler's code up to the next store operation or the    *)
(* response.  The gates that read only the request's own session           *)
(* (requireAuth, requireRole) run in the first segment.                    *)
(***************************************************************************)
EXTENDS Integers, Sequences, FiniteSets, TLC

VARIABLES
    users,          \* table users: rows [id, email, password, role, is_approved]
    courses,        \* table courses: rows [id, teacher_id, name, is_active, updated_at]
    enrollments,    \* table enrollments: rows [id, student_id, course_id]
    assignments,    \* table assignments: rows [id, course_id, title]
    submissions,    \* table submissions: rows [id, assignment_id, student_id, content,
                    \*                          submitted_at, grade, feedback, graded_at]
    messages,       \* table messages: rows [id, sender_id, receiver_id, content, created_at, is_read]
    nextId,         \* per table, the id the store gives the next inserted row
    clock,          \* the time: new Date() and the store's now()
    session,        \* per client, req.session.user (NoUser when the session holds none)
    req             \* per client, the request being served or the last one answered

db == <<users, courses, enrollments, assignments, submissions, messages, nextId, clock>>
vars == <<users, courses, enrollments, assignments, submissions, messages, nextId, clock,
          session, req>>

----------------------------------------------------------------------------
(* Bounds of the model. *)

\* The store hands out row ids 1..MaxId per table; an insert beyond it is not taken.
MaxId == 3
\* The last instant at which a timestamped write is taken.
MaxClock == 3

Clients == {"c1", "c2", "c3"}
Tables == {"users", "courses", "enrollments", "assignments", "submissions", "messages"}

----------------------------------------------------------------------------
(* Values. *)

\* A field absent from the request body (JavaScript's undefined): of a string
\* field, and of a field of another type, which holds <<v>> when given.
Absent == "<absent>"
NotGiven == <<>>
\* NULL in a nullable column, which holds <<v>> otherwise.
Null == <<>>
\* data: null of a store answer.
NoRow == [id |-> 0]
\* A session without user.
NoUser == [id |-> 0, role |-> "none", isApproved |-> FALSE]

NoReq == [op |-> "none", pc |-> "done", su |-> NoUser, arg |-> NoRow, loc |-> NoRow,
          status |-> 0, msg |-> ""]

----------------------------------------------------------------------------
(* The store client. *)

\* .single(): the row when the filter matches exactly one row, otherwise an
\* error and data: null.
Single(rows) ==
    IF Cardinality(rows) = 1 THEN CHOOSE r \in rows : TRUE ELSE NoRow

\* bcrypt.hash and bcrypt.compare.
Hash(password) == <<"bcrypt", password>>
Compare(password, hashed) == hashed = Hash(password)

\* The time a write is stamped with; the write moves the clock.
Now == clock
Tick == clock' = clock + 1

\* An insert takes the table's next id.
Alloc(table) == nextId' = [nextId EXCEPT ![table] = @ + 1]

----------------------------------------------------------------------------
(* Requests and responses. *)

Idle(c) == req[c].pc = "done"

\* The request of client c, as it starts: it carries the session's user.
NewReq(c, op, arg) ==
    [op |-> op, pc |-> "start", su |-> session[c], arg |-> arg, loc |-> NoRow,
     status |-> 0, msg |-> ""]

\* res.status(status).json(...): the request r of client c is answered.
Reply(c, r, status, msg) ==
    req' = [req EXCEPT ![c] = [r EXCEPT !.pc = "done", !.status = status, !.msg = msg]]

\* The handler of client c goes on to its next store operation.
Goto(c, r, pc, loc) ==
    req' = [req EXCEPT ![c] = [r EXCEPT !.pc = pc, !.loc = loc]]

----------------------------------------------------------------------------
(* middleware/auth *)

\* req.path.startsWith('/api/').  A path is the sequence of its segments,
\* <<>> for '/', a route parameter standing as its name (an id is never
\* 'api').  Middleware that a router runs sees the path after the mount point
\* of the router: '/unread-count' for /api/messages/unread-count.
StartsWithApi(path) == Len(path) >= 2 /\ path[1] = "api"

\* requireAuth: 0 stands for next(), 302 for res.redirect('/login').
requireAuth(su, path) ==
    IF su # NoUser THEN 0
    ELSE IF StartsWithApi(path) THEN 401 ELSE 302

\* (mutant) a gate that decides on the role of the stored row
requireRoleOfRecord(su, roles) ==
    IF su = NoUser THEN 401
    ELSE IF \E u \in users : u.id = su.id /\ u.role \in roles THEN 0
    ELSE 403

\* A gate that lets every logged-in user pass.
requireLogin(su, roles) ==
    IF su = NoUser THEN 401 ELSE 0

requireRole(su, roles) ==
    IF su = NoUser THEN 401
    ELSE IF su.role \notin roles THEN 403
    ELSE 0

\* router.use(requireAuth) of the routers of courses, assignments and admin,
\* before the requireRole(...) of the route (of the router, for admin).
RouterUse(su, path, roleGate) ==
    LET auth == requireAuth(su, path)
    IN  IF auth # 0 THEN auth ELSE roleGate

\* The body of the answer of a gate; of a redirect, its target.
GateMsg(status) ==
    IF status = 401 THEN "Not authenticated"
    ELSE IF status = 302 THEN "/login"
    ELSE "Insufficient permissions"

----------------------------------------------------------------------------
(* routes/auth *)

\* POST /auth/register, to the lookup of the email.
\* body: [names: whether first and last name are given, email, password, role]
Register(c, body) ==
    /\ Idle(c)
    /\ LET r == NewReq(c, "register", body)
           existing == Single({u \in users : u.email = body.email})
       IN  IF ~body.names \/ body.email = "" \/ body.password = ""
           THEN Reply(c, r, 400, "All fields are required")
           ELSE IF Len(body.password) < 6
           THEN Reply(c, r, 400, "Password must be at least 6 characters")
           ELSE IF existing # NoRow
           THEN Reply(c, r, 400, "An account with this email already exists")
           ELSE Goto(c, r, "insert", NoRow)
    /\ UNCHANGED <<db, session>>

\* (mutant) the role as requested
RegisterRoleAsRequested(role) == IF role = Absent THEN "student" ELSE role

\* The role and approval flag a registration stores.
RegisterRole(role) == IF role \in {"student", "teacher"} THEN role ELSE "student"
RegisterApproved(role) == RegisterRole(role) = "student"

\* POST /auth/register, the insert: the store takes the row.  When the email
\* has been taken since the lookup, this is what a store without a unique
\* constraint on users.email does; RegisterInsertRefused is what one with it does.
RegisterInsert(c) ==
    /\ req[c].op = "register" /\ req[c].pc = "insert"
    /\ nextId["users"] <= MaxId
    /\ LET body == req[c].arg
           row == [id |-> nextId["users"], email |-> body.email,
                   password |-> Hash(body.password),
                   role |-> RegisterRole(body.role),
                   is_approved |-> RegisterApproved(body.role)]
       IN  /\ users' = users \cup {row}
           /\ Alloc("users")
           /\ session' = [session EXCEPT ![c] =
                  [id |-> row.id, role |-> row.role, isApproved |-> row.is_approved]]
           /\ Reply(c, req[c], 200, "")
    /\ UNCHANGED <<courses, enrollments, assignments, submissions, messages, clock>>

\* POST /auth/register, the insert: the store refuses the row because the
\* email is taken by now (users.email is unique in the data model).
RegisterInsertRefused(c) ==
    /\ req[c].op = "register" /\ req[c].pc = "insert"
    /\ \E u \in users : u.email = req[c].arg.email
    /\ Reply(c, req[c], 500, "Registration failed. Please try again.")
    /\ UNCHANGED <<db, session>>

\* (mutant) an answer that tells the email is not registered
LoginUserNotFound == [status |-> 404, msg |-> "User not found"]

\* The answers of a failed login: no user with the email, and a wrong password.
LoginUnknownEmail == [status |-> 401, msg |-> "Invalid email or password"]
LoginWrongPassword == [status |-> 401, msg |-> "Invalid email or password"]

\* POST /auth/login
Login(c, email, password) ==
    /\ Idle(c)
    /\ LET r == NewReq(c, "login", [email |-> email, password |-> password])
           user == Single({u \in users : u.email = email})
       IN  IF email = "" \/ password = ""
           THEN /\ Reply(c, r, 400, "Email and password are required")
                /\ UNCHANGED session
           ELSE IF user = NoRow
           THEN /\ Reply(c, r, LoginUnknownEmail.status, LoginUnknownEmail.msg)
                /\ UNCHANGED session
           ELSE IF ~Compare(password, user.password)
           THEN /\ Reply(c, r, LoginWrongPassword.status, LoginWrongPassword.msg)
                /\ UNCHANGED session
           ELSE /\ session' = [session EXCEPT ![c] =
                       [id |-> user.id, role |-> user.role, isApproved |-> user.is_approved]]
                /\ Reply(c, r, 200, "")
    /\ UNCHANGED db

\* POST /auth/logout
Logout(c) ==
    /\ Idle(c)
    /\ session' = [session EXCEPT ![c] = NoUser]
    /\ Reply(c, NewReq(c, "logout", NoRow), 200, "")
    /\ UNCHANGED db

----------------------------------------------------------------------------
(* middleware/auth: requireApproved *)

\* Whether requireApproved reads the user record: not for students and
\* master teachers, who pass.
requireApprovedLooksUp(su) ==
    ~(su.role = "student" \/ su.role = "master_teacher")

\* (mutant) the flag of the session snapshot taken at login
ApprovalFlagOfSession(su, user) == su.isApproved

\* The approval flag requireApproved decides on: the one of the stored row.
ApprovalFlag(su, user) == user.is_approved

\* requireApproved after its lookup of the user row: 0 stands for next().
requireApproved(su, user) ==
    IF user = NoRow \/ ~ApprovalFlag(su, user) THEN 403 ELSE 0

PendingMsg == "Your account is pending admin approval"

----------------------------------------------------------------------------
(* routes/courses *)

TeacherRoles == {"teacher", "master_teacher"}

\* (mutant) the test without the comparison of the teacher id
OwnsCourseIfFound(su, course) == course # NoRow

\* The ownership test of PUT, DELETE and GET /:id/students.
OwnsCourse(su, course) ==
    ~(course = NoRow \/ course.teacher_id # su.id)

\* Whether the ownership test is made at all: for teachers only.
OwnershipEnforced(su) == su.role = "teacher"

\* POST /api/courses, the insert.  is_active and updated_at are left to the
\* store's defaults; courses.teacher_id is a foreign key (courses_teacher_id_fkey).
CourseCreateInsert(c, r) ==
    /\ nextId["courses"] <= MaxId
    /\ IF \E u \in users : u.id = r.su.id
       THEN /\ courses' = courses \cup
                  {[id |-> nextId["courses"], teacher_id |-> r.su.id,
                    name |-> r.arg.name, is_active |-> TRUE, updated_at |-> Null]}
            /\ Alloc("courses")
            /\ Reply(c, r, 200, "")
       ELSE /\ Reply(c, r, 500, "Failed to create course")
            /\ UNCHANGED <<courses, nextId>>
    /\ UNCHANGED <<users, enrollments, assignments, submissions, messages, clock, session>>

\* POST /api/courses after requireRole and requireApproved: the validation of
\* the body, then the insert (a segment of its own after the lookup).
CourseCreateBody(c, r) ==
    IF r.arg.name = Absent \/ r.arg.name = ""
    THEN /\ Reply(c, r, 400, "Course name is required")
         /\ UNCHANGED <<db, session>>
    ELSE IF requireApprovedLooksUp(r.su)
    THEN /\ Goto(c, r, "insert", NoRow)
         /\ UNCHANGED <<db, session>>
    ELSE CourseCreateInsert(c, r)

\* POST /api/courses.  body: [name]
CourseCreate(c, body) ==
    /\ Idle(c)
    /\ LET r == NewReq(c, "courseCreate", body)
           gate == RouterUse(r.su, <<>>,
                             requireRole(r.su, TeacherRoles))
           user == Single({u \in users : u.id = r.su.id})
       IN  IF gate # 0
           THEN /\ Reply(c, r, gate, GateMsg(gate))
                /\ UNCHANGED <<db, session>>
           ELSE IF requireApprovedLooksUp(r.su) /\ requireApproved(r.su, user) # 0
           THEN /\ Reply(c, r, 403, PendingMsg)
                /\ UNCHANGED <<db, session>>
           ELSE CourseCreateBody(c, r)

CourseCreateStep(c) ==
    /\ req[c].op = "courseCreate" /\ req[c].pc = "insert"
    /\ CourseCreateInsert(c, req[c])

\* The row after PUT's update: the fields present in the body, and updated_at.
\* (description and subject are handled as name is.)
CourseUpdates(row, body, now) ==
    [row EXCEPT !.updated_at = <<now>>,
                !.name = IF body.name # Absent THEN body.name ELSE @,
                !.is_active = IF body.is_active # NotGiven THEN body.is_active[1] ELSE @]

\* PUT /api/courses/:id, the update ... .select().single()
CourseUpdateWrite(c, r) ==
    /\ LET row == Single({k \in courses : k.id = r.arg.id})
       IN  IF row = NoRow
           THEN /\ Reply(c, r, 500, "Failed to update course")
                /\ UNCHANGED <<courses, clock>>
           ELSE /\ clock <= MaxClock
                /\ courses' = (courses \ {row}) \cup {CourseUpdates(row, r.arg, Now)}
                /\ Tick
                /\ Reply(c, r, 200, "")
    /\ UNCHANGED <<users, enrollments, assignments, submissions, messages, nextId, session>>

\* PUT /api/courses/:id.  body: [id, name, is_active]
CourseUpdate(c, body) ==
    /\ Idle(c)
    /\ LET r == NewReq(c, "courseUpdate", body)
           gate == RouterUse(r.su, <<":id">>,
                             requireRole(r.su, TeacherRoles))
           course == Single({k \in courses : k.id = body.id})
       IN  IF gate # 0
           THEN /\ Reply(c, r, gate, GateMsg(gate))
                /\ UNCHANGED <<db, session>>
           ELSE IF OwnershipEnforced(r.su)
           THEN /\ IF OwnsCourse(r.su, course)
                   THEN Goto(c, r, "update", NoRow)
                   ELSE Reply(c, r, 403, "Not your course")
                /\ UNCHANGED <<db, session>>
           ELSE CourseUpdateWrite(c, r)

CourseUpdateStep(c) ==
    /\ req[c].op = "courseUpdate" /\ req[c].pc = "update"
    /\ CourseUpdateWrite(c, req[c])

\* DELETE /api/courses/:id, the update that clears is_active.
CourseDeleteWrite(c, r) ==
    /\ IF \E k \in courses : k.id = r.arg.id
       THEN /\ clock <= MaxClock
            /\ courses' = {IF k.id = r.arg.id
                           THEN [k EXCEPT !.is_active = FALSE, !.updated_at = <<Now>>]
                           ELSE k : k \in courses}
            /\ Tick
       ELSE UNCHANGED <<courses, clock>>
    /\ Reply(c, r, 200, "")
    /\ UNCHANGED <<users, enrollments, assignments, submissions, messages, nextId, session>>

\* DELETE /api/courses/:id.  body: [id]
CourseDelete(c, body) ==
    /\ Idle(c)
    /\ LET r == NewReq(c, "courseDelete", body)
           gate == RouterUse(r.su, <<":id">>,
                             requireRole(r.su, TeacherRoles))
           course == Single({k \in courses : k.id = body.id})
       IN  IF gate # 0
           THEN /\ Reply(c, r, gate, GateMsg(gate))
                /\ UNCHANGED <<db, session>>
           ELSE IF OwnershipEnforced(r.su)
           THEN /\ IF OwnsCourse(r.su, course)
                   THEN Goto(c, r, "delete", NoRow)
                   ELSE Reply(c, r, 403, "Not your course")
                /\ UNCHANGED <<db, session>>
           ELSE CourseDeleteWrite(c, r)

CourseDeleteStep(c) ==
    /\ req[c].op = "courseDelete" /\ req[c].pc = "delete"
    /\ CourseDeleteWrite(c, req[c])

----------------------------------------------------------------------------
(* routes/admin *)

\* (mutant) the rows with the id, of any role
ApprovalTargetsOfAnyRole(id) == {u \in users : u.id = id}

\* .eq('id', req.params.id).eq('role', 'teacher'): the rows approve and
\* reject update.
ApprovalTargets(id) == {u \in users : u.id = id /\ u.role = "teacher"}

\* POST /api/admin/users/:id/approve and /reject: the update of the row with
\* the id and role teacher, .single().  body: [id]
SetApproval(c, op, body, flag) ==
    /\ Idle(c)
    /\ LET r == NewReq(c, op, body)
           gate == RouterUse(r.su, <<"users", ":id", op>>,
                             requireRole(r.su, {"master_teacher"}))
           hit == ApprovalTargets(body.id)
       IN  IF gate # 0
           THEN /\ Reply(c, r, gate, GateMsg(gate))
                /\ UNCHANGED users
           ELSE IF hit = {}
           THEN /\ Reply(c, r, 500, "Failed to " \o op \o " teacher")
                /\ UNCHANGED users
           ELSE /\ users' = (users \ hit) \cup {[u EXCEPT !.is_approved = flag] : u \in hit}
                /\ Reply(c, r, 200, "")
    /\ UNCHANGED <<courses, enrollments, assignments, submissions, messages, nextId, clock,
                   session>>

Approve(c, body) == SetApproval(c, "approve", body, TRUE)
Reject(c, body) == SetApproval(c, "reject", body, FALSE)

\* (mutant) a comparison that never finds the two ids the same
NeverSameId(paramId, sessionId) == FALSE

\* req.params.id === req.session.user.id: the id of the path and the id of
\* the session are the same identifier.
SameId(paramId, sessionId) == paramId = sessionId

Roles == {"student", "teacher", "master_teacher"}

\* The row after PUT /users/:id's update: the fields of the body that are
\* truthy.  (first_name and last_name are handled as email is.)
UserUpdates(row, body) ==
    [row EXCEPT !.email = IF body.email \notin {Absent, ""} THEN body.email ELSE @,
                !.role = IF body.role \notin {Absent, ""} THEN body.role ELSE @]

\* Whether a store that constrains users (email unique, role one of Roles)
\* refuses the update of the row with the id.
UserUpdateConflict(body) ==
    \/ body.role \notin {Absent, ""} /\ body.role \notin Roles
    \/ /\ body.email \notin {Absent, ""}
       /\ \E u \in users : u.id # body.id /\ u.email = body.email

\* PUT /api/admin/users/:id: the store takes the update.  body: [id, email, role]
EditUser(c, body) ==
    /\ Idle(c)
    /\ LET r == NewReq(c, "editUser", body)
           gate == RouterUse(r.su, <<"users", ":id">>,
                             requireRole(r.su, {"master_teacher"}))
           row == Single({u \in users : u.id = body.id})
       IN  IF gate # 0
           THEN /\ Reply(c, r, gate, GateMsg(gate))
                /\ UNCHANGED users
           ELSE IF /\ SameId(body.id, r.su.id)
                   /\ body.role \notin {Absent, ""} /\ body.role # "master_teacher"
           THEN /\ Reply(c, r, 400, "Cannot change your own admin role")
                /\ UNCHANGED users
           ELSE IF row = NoRow
           THEN /\ Reply(c, r, 500, "Failed to update user")
                /\ UNCHANGED users
           ELSE /\ users' = (users \ {row}) \cup {UserUpdates(row, body)}
                /\ Reply(c, r, 200, "")
    /\ UNCHANGED <<courses, enrollments, assignments, submissions, messages, nextId, clock,
                   session>>

\* PUT /api/admin/users/:id: the store refuses the update (a unique email, a
\* role outside the roles).
EditUserRefused(c, body) ==
    /\ Idle(c)
    /\ LET r == NewReq(c, "editUser", body)
       IN  /\ requireRole(r.su, {"master_teacher"}) = 0
           /\ ~( /\ SameId(body.id, r.su.id)
                 /\ body.role \notin {Absent, ""} /\ body.role # "master_teacher" )
           /\ \E u \in users : u.id = body.id
           /\ UserUpdateConflict(body)
           /\ Reply(c, r, 500, "Failed to update user")
    /\ UNCHANGED <<db, session>>

\* POST /api/admin/users/:id/promote.  body: [id]
Promote(c, body) ==
    /\ Idle(c)
    /\ LET r == NewReq(c, "promote", body)
           gate == RouterUse(r.su, <<"users", ":id", "promote">>,
                             requireRole(r.su, {"master_teacher"}))
           row == Single({u \in users : u.id = body.id})
       IN  IF gate # 0
           THEN /\ Reply(c, r, gate, GateMsg(gate))
                /\ UNCHANGED users
           ELSE IF row = NoRow
           THEN /\ Reply(c, r, 500, "Failed to promote user")
                /\ UNCHANGED users
           ELSE /\ users' = (users \ {row}) \cup
                       {[row EXCEPT !.role = "master_teacher", !.is_approved = TRUE]}
                /\ Reply(c, r, 200, "")
    /\ UNCHANGED <<courses, enrollments, assignments, submissions, messages, nextId, clock,
                   session>>

\* The rows that reference user id, directly or through a row that does.
CoursesOf(id) == {k \in courses : k.teacher_id = id}
AssignmentsIn(ks) == {a \in assignments : \E k \in ks : a.course_id = k.id}
HasDependents(id) ==
    \/ CoursesOf(id) # {}
    \/ \E e \in enrollments : e.student_id = id
    \/ \E s \in submissions : s.student_id = id
    \/ \E m \in messages : m.sender_id = id \/ m.receiver_id = id

\* DELETE /api/admin/users/:id: the store deletes the row, and with it the
\* rows that reference it (foreign keys that cascade).  body: [id]
DeleteUser(c, body) ==
    /\ Idle(c)
    /\ LET r == NewReq(c, "deleteUser", body)
           gate == RouterUse(r.su, <<"users", ":id">>,
                             requireRole(r.su, {"master_teacher"}))
           gone == CoursesOf(body.id)
           goneA == AssignmentsIn(gone)
       IN  IF gate # 0
           THEN /\ Reply(c, r, gate, GateMsg(gate))
                /\ UNCHANGED <<users, courses, enrollments, assignments, submissions, messages>>
           ELSE IF SameId(body.id, r.su.id)
           THEN /\ Reply(c, r, 400, "Cannot delete your own account")
                /\ UNCHANGED <<users, courses, enrollments, assignments, submissions, messages>>
           ELSE /\ users' = {u \in users : u.id # body.id}
                /\ courses' = courses \ gone
                /\ assignments' = assignments \ goneA
                /\ enrollments' = {e \in enrollments :
                       e.student_id # body.id /\ ~\E k \in gone : e.course_id = k.id}
                /\ submissions' = {s \in submissions :
                       s.student_id # body.id /\ ~\E a \in goneA : s.assignment_id = a.id}
                /\ messages' = {m \in messages :
                       m.sender_id # body.id /\ m.receiver_id # body.id}
                /\ Reply(c, r, 200, "")
    /\ UNCHANGED <<nextId, clock, session>>

\* DELETE /api/admin/users/:id: the store refuses the delete because rows
\* reference the user (foreign keys that restrict).
DeleteUserRefused(c, body) ==
    /\ Idle(c)
    /\ LET r == NewReq(c, "deleteUser", body)
       IN  /\ requireRole(r.su, {"master_teacher"}) = 0
           /\ ~SameId(body.id, r.su.id)
           /\ HasDependents(body.id)
           /\ Reply(c, r, 500, "Failed to delete user")
    /\ UNCHANGED <<db, session>>

\* The gate of the admin router: router.use(requireAuth,
\* requireRole('master_teacher')).
AdminGate(su, path) == RouterUse(su, path, requireRole(su, {"master_teacher"}))

\* GET /api/admin/stats, the read of the users.
Stats(c) ==
    /\ Idle(c)
    /\ LET r == NewReq(c, "stats", NoRow)
           gate == AdminGate(r.su, <<"stats">>)
           count(role) == Cardinality({u \in users : u.role = role})
       IN  IF gate # 0
           THEN Reply(c, r, gate, GateMsg(gate))
           ELSE Goto(c, r, "courses",
                     [totalStudents |-> count("student"),
                      totalTeachers |-> count("teacher"),
                      totalAdmins |-> count("master_teacher"),
                      pendingApprovals |-> Cardinality({u \in users :
                          u.role = "teacher" /\ ~u.is_approved}),
                      totalUsers |-> Cardinality(users)])
    /\ UNCHANGED <<db, session>>

\* GET /api/admin/stats: the read of the courses and the answer.
StatsStep(c) ==
    /\ req[c].op = "stats" /\ req[c].pc = "courses"
    /\ Reply(c, [req[c] EXCEPT !.loc =
              [stats |-> req[c].loc, totalCourses |-> Cardinality(courses)]], 200, "")
    /\ UNCHANGED <<db, session>>

\* GET /api/admin/users?role=&approved=.  query: [role, approved], a missing
\* parameter Absent; an empty role does not filter; approved filters on
\* approved === 'true'.  loc.user_ids holds the ids of the rows shown.
ListUsers(c, query) ==
    /\ Idle(c)
    /\ LET r == NewReq(c, "listUsers", NoRow)
           gate == AdminGate(r.su, <<"users">>)
           rows == {u \in users :
                       /\ (query.role # Absent /\ query.role # "") => u.role = query.role
                       /\ query.approved # Absent
                              => u.is_approved = (query.approved = "true")}
       IN  IF gate # 0
           THEN Reply(c, r, gate, GateMsg(gate))
           ELSE Reply(c, [r EXCEPT !.loc = [user_ids |-> {u.id : u \in rows}]], 200, "")
    /\ UNCHANGED <<db, session>>

\* GET /api/admin/users/:id.  body: [id]
GetUser(c, body) ==
    /\ Idle(c)
    /\ LET r == NewReq(c, "getUser", body)
           gate == AdminGate(r.su, <<"users", ":id">>)
           user == Single({u \in users : u.id = body.id})
       IN  IF gate # 0
           THEN Reply(c, r, gate, GateMsg(gate))
           ELSE IF user = NoRow
           THEN Reply(c, r, 404, "User not found")
           ELSE Reply(c, [r EXCEPT !.loc = [user_ids |-> {user.id}]], 200, "")
    /\ UNCHANGED <<db, session>>

\* GET /api/admin/pending-teachers
PendingTeachers(c) ==
    /\ Idle(c)
    /\ LET r == NewReq(c, "pendingTeachers", NoRow)
           gate == AdminGate(r.su, <<"pending-teachers">>)
           rows == {u \in users : u.role = "teacher" /\ ~u.is_approved}
       IN  IF gate # 0
           THEN Reply(c, r, gate, GateMsg(gate))
           ELSE Reply(c, [r EXCEPT !.loc = [user_ids |-> {u.id : u \in rows}]], 200, "")
    /\ UNCHANGED <<db, session>>

\* GET /api/admin/courses, the read of the courses with their teachers.
AdminCourses(c) ==
    /\ Idle(c)
    /\ LET r == NewReq(c, "adminCourses", NoRow)
           gate == AdminGate(r.su, <<"courses">>)
       IN  IF gate # 0
           THEN Reply(c, r, gate, GateMsg(gate))
           ELSE Goto(c, r, "counts", [course_ids |-> {k.id : k \in courses}])
    /\ UNCHANGED <<db, session>>

\* GET /api/admin/courses: the reads of the enrollments of each course (in
\* one segment) and the answer.
AdminCoursesStep(c) ==
    /\ req[c].op = "adminCourses" /\ req[c].pc = "counts"
    /\ Reply(c, [req[c] EXCEPT !.loc =
              [counted |-> {[id |-> id,
                             enrollment_count |-> Cardinality({e \in enrollments :
                                                     e.course_id = id})] :
                            id \in req[c].loc.course_ids}]], 200, "")
    /\ UNCHANGED <<db, session>>

----------------------------------------------------------------------------
(* routes/assignments *)

\* (mutant) the helper without the comparison of the teacher id
verifyCourseExists(courseId, userId) ==
    Single({k \in courses : k.id = courseId}) # NoRow

\* verifyTeacherOwns(courseId, userId)
verifyTeacherOwns(courseId, userId) ==
    LET course == Single({k \in courses : k.id = courseId})
    IN  course # NoRow /\ course.teacher_id = userId

\* verifyEnrolled(courseId, studentId)
verifyEnrolled(courseId, studentId) ==
    Single({e \in enrollments : e.course_id = courseId /\ e.student_id = studentId}) # NoRow

\* POST /api/assignments, the insert; assignments.course_id is a foreign key.
\* (The create requests of the model give no due_date: due_date || null.)
AssignmentCreateInsert(c, r) ==
    /\ nextId["assignments"] <= MaxId
    /\ IF \E k \in courses : k.id = r.arg.course_id
       THEN /\ assignments' = assignments \cup
                  {[id |-> nextId["assignments"], course_id |-> r.arg.course_id,
                    title |-> r.arg.title, due_date |-> Null]}
            /\ Alloc("assignments")
            /\ Reply(c, r, 200, "")
       ELSE /\ Reply(c, r, 500, "Failed to create assignment")
            /\ UNCHANGED <<assignments, nextId>>
    /\ UNCHANGED <<users, courses, enrollments, submissions, messages, clock, session>>

\* POST /api/assignments, the ownership check of a teacher.
AssignmentCreateOwns(c, r) ==
    /\ IF verifyTeacherOwns(r.arg.course_id, r.su.id)
       THEN Goto(c, r, "insert", NoRow)
       ELSE Reply(c, r, 403, "Not your course")
    /\ UNCHANGED <<db, session>>

\* POST /api/assignments.  body: [course_id, title]; a course_id of 0 is none.
AssignmentCreate(c, body) ==
    /\ Idle(c)
    /\ LET r == NewReq(c, "assignmentCreate", body)
           gate == RouterUse(r.su, <<>>,
                             requireRole(r.su, TeacherRoles))
           user == Single({u \in users : u.id = r.su.id})
       IN  IF gate # 0
           THEN /\ Reply(c, r, gate, GateMsg(gate))
                /\ UNCHANGED <<db, session>>
           ELSE IF requireApprovedLooksUp(r.su) /\ requireApproved(r.su, user) # 0
           THEN /\ Reply(c, r, 403, PendingMsg)
                /\ UNCHANGED <<db, session>>
           ELSE IF body.course_id = 0 \/ body.title = Absent \/ body.title = ""
           THEN /\ Reply(c, r, 400, "Course and title are required")
                /\ UNCHANGED <<db, session>>
           ELSE IF requireApprovedLooksUp(r.su)
           THEN \* the lookup was this segment's store operation
                /\ Goto(c, r, IF OwnershipEnforced(r.su) THEN "owns" ELSE "insert", NoRow)
                /\ UNCHANGED <<db, session>>
           ELSE IF OwnershipEnforced(r.su)
           THEN AssignmentCreateOwns(c, r)
           ELSE AssignmentCreateInsert(c, r)

AssignmentCreateStep(c) ==
    /\ req[c].op = "assignmentCreate"
    /\ \/ req[c].pc = "owns" /\ AssignmentCreateOwns(c, req[c])
       \/ req[c].pc = "insert" /\ AssignmentCreateInsert(c, req[c])

\* The routes on one assignment begin alike: the assignment is read (404 when
\* there is none), and a teacher's ownership of its course is verified next.
AssignmentRead(c, r, then, notFound) ==
    /\ LET assignment == Single({a \in assignments : a.id = r.arg.id})
       IN  IF assignment = NoRow
           THEN Reply(c, r, 404, notFound)
           ELSE Goto(c, r, IF OwnershipEnforced(r.su) THEN "owns" ELSE then,
                     [course_id |-> assignment.course_id])
    /\ UNCHANGED <<db, session>>

AssignmentOwns(c, r, then) ==
    /\ IF verifyTeacherOwns(r.loc.course_id, r.su.id)
       THEN Goto(c, r, then, r.loc)
       ELSE Reply(c, r, 403, "Not your course")
    /\ UNCHANGED <<db, session>>

\* The first segment of a route on one assignment that teachers and master
\* teachers may call.
AssignmentRoute(c, op, body, then) ==
    /\ Idle(c)
    /\ LET r == NewReq(c, op, body)
           gate == RouterUse(r.su,
                             IF op = "listSubmissions" THEN <<":id", "submissions">>
                             ELSE <<":id">>,
                             requireRole(r.su, TeacherRoles))
       IN  IF gate # 0
           THEN /\ Reply(c, r, gate, GateMsg(gate))
                /\ UNCHANGED <<db, session>>
           ELSE AssignmentRead(c, r, then, "Assignment not found")

\* PUT /api/assignments/:id.  body: [id, title, due_date]
AssignmentUpdate(c, body) == AssignmentRoute(c, "assignmentUpdate", body, "update")

\* A due_date of a request body: absent, null, or a date.
NoDate == [kind |-> "undefined"]
NullDate == [kind |-> "null"]
Date(d) == [kind |-> "date", d |-> d]

\* (mutant) an update of the fields that are truthy
AssignmentUpdatesIfTruthy(row, body) ==
    [row EXCEPT !.title = IF body.title \notin {Absent, ""} THEN body.title ELSE @,
                !.due_date = IF body.due_date.kind = "date"
                             THEN <<body.due_date.d>> ELSE @]

\* The row after the update: the fields present in the body (!== undefined),
\* null included.  (description and max_points are handled as due_date is.)
AssignmentUpdates(row, body) ==
    [row EXCEPT !.title = IF body.title # Absent THEN body.title ELSE @,
                !.due_date = IF body.due_date.kind = "undefined" THEN @
                             ELSE IF body.due_date.kind = "null" THEN Null
                             ELSE <<body.due_date.d>>]

AssignmentUpdateStep(c) ==
    /\ req[c].op = "assignmentUpdate"
    /\ \/ req[c].pc = "owns" /\ AssignmentOwns(c, req[c], "update")
       \/ /\ req[c].pc = "update"
          /\ LET row == Single({a \in assignments : a.id = req[c].arg.id})
             IN  IF row = NoRow
                 THEN /\ Reply(c, req[c], 500, "Failed to update assignment")
                      /\ UNCHANGED assignments
                 ELSE /\ assignments' =
                             (assignments \ {row}) \cup {AssignmentUpdates(row, req[c].arg)}
                      /\ Reply(c, req[c], 200, "")
          /\ UNCHANGED <<users, courses, enrollments, submissions, messages, nextId, clock,
                         session>>

\* DELETE /api/assignments/:id.  body: [id]
AssignmentDelete(c, body) == AssignmentRoute(c, "assignmentDelete", body, "delete")

\* The delete of the assignment row; the submissions that reference it go with
\* it (a foreign key that cascades).
AssignmentDeleteStep(c) ==
    /\ req[c].op = "assignmentDelete"
    /\ \/ req[c].pc = "owns" /\ AssignmentOwns(c, req[c], "delete")
       \/ /\ req[c].pc = "delete"
          /\ assignments' = {a \in assignments : a.id # req[c].arg.id}
          /\ submissions' = {s \in submissions : s.assignment_id # req[c].arg.id}
          /\ Reply(c, req[c], 200, "")
          /\ UNCHANGED <<users, courses, enrollments, messages, nextId, clock, session>>

\* The delete of the assignment row refused by the store: submissions
\* reference it (a foreign key that restricts).
AssignmentDeleteRefused(c) ==
    /\ req[c].op = "assignmentDelete" /\ req[c].pc = "delete"
    /\ \E s \in submissions : s.assignment_id = req[c].arg.id
    /\ Reply(c, req[c], 500, "Failed to delete assignment")
    /\ UNCHANGED <<db, session>>

\* GET /api/assignments/:id/submissions.  body: [id]
ListSubmissions(c, body) == AssignmentRoute(c, "listSubmissions", body, "list")

\* The read of the assignment's submissions; loc.rows is what the answer shows.
ListSubmissionsStep(c) ==
    /\ req[c].op = "listSubmissions"
    /\ \/ req[c].pc = "owns" /\ AssignmentOwns(c, req[c], "list")
       \/ /\ req[c].pc = "list"
          /\ Reply(c, [req[c] EXCEPT !.loc =
                    [rows |-> {s.id : s \in {x \in submissions :
                                               x.assignment_id = req[c].arg.id}}]],
                   200, "")
          /\ UNCHANGED <<db, session>>

\* The insert of a submission: content; submitted_at is the store's now(),
\* grade, feedback and graded_at are NULL.
NewSubmission(id, assignmentId, studentId, content, now) ==
    [id |-> id, assignment_id |-> assignmentId, student_id |-> studentId,
     content |-> content, submitted_at |-> <<now>>,
     grade |-> Null, feedback |-> Null, graded_at |-> Null]

\* (mutant) a resubmission that resets the grading
ResubmittedUngraded(row, content, now) ==
    [row EXCEPT !.content = content, !.submitted_at = <<now>>,
                !.grade = Null, !.feedback = Null, !.graded_at = Null]

\* The update of a resubmission.
Resubmitted(row, content, now) ==
    [row EXCEPT !.content = content, !.submitted_at = <<now>>]

\* Whether the store takes a second submission row for an (assignment, student)
\* pair: the submissions table carries no unique constraint on the pair.
SubmissionInsertTaken(assignmentId, studentId) == TRUE

\* (mutant) the existence of a submission looked up again at the write
ExistingNow(r) ==
    Single({s \in submissions : s.assignment_id = r.arg.id /\ s.student_id = r.su.id}).id

\* if (existing): the id of the submission the handler found in its lookup
\* (0 when it found none), on which the update or the insert is chosen.
ExistingAtWrite(r) == r.loc.existing

\* POST /api/assignments/:id/submit.  body: [id, content]
Submit(c, body) ==
    /\ Idle(c)
    /\ LET r == NewReq(c, "submit", body)
           gate == RouterUse(r.su, <<":id", "submit">>,
                             requireRole(r.su, {"student"}))
           assignment == Single({a \in assignments : a.id = body.id})
       IN  IF gate # 0
           THEN Reply(c, r, gate, GateMsg(gate))
           ELSE IF body.content = Absent \/ body.content = ""
           THEN Reply(c, r, 400, "Submission content is required")
           ELSE IF assignment = NoRow
           THEN Reply(c, r, 404, "Assignment not found")
           ELSE Goto(c, r, "enrolled", [course_id |-> assignment.course_id])
    /\ UNCHANGED <<db, session>>

\* The update of the submission found.
SubmitUpdate(c, r) ==
    /\ LET row == Single({s \in submissions : s.id = ExistingAtWrite(r)})
       IN  IF row = NoRow
           THEN /\ Reply(c, r, 500, "Failed to submit")
                /\ UNCHANGED <<submissions, clock>>
           ELSE /\ clock <= MaxClock
                /\ submissions' = (submissions \ {row})
                       \cup {Resubmitted(row, r.arg.content, Now)}
                /\ Tick
                /\ Reply(c, r, 200, "")
    /\ UNCHANGED nextId

\* The insert of a submission; assignment_id and student_id are foreign keys.
SubmitInsert(c, r) ==
    IF /\ \E a \in assignments : a.id = r.arg.id
       /\ \E u \in users : u.id = r.su.id
       /\ \/ SubmissionInsertTaken(r.arg.id, r.su.id)
          \/ ~\E s \in submissions : s.assignment_id = r.arg.id /\ s.student_id = r.su.id
    THEN /\ clock <= MaxClock
         /\ nextId["submissions"] <= MaxId
         /\ submissions' = submissions \cup
                {NewSubmission(nextId["submissions"], r.arg.id, r.su.id, r.arg.content, Now)}
         /\ Alloc("submissions")
         /\ Tick
         /\ Reply(c, r, 200, "")
    ELSE /\ Reply(c, r, 500, "Failed to submit")
         /\ UNCHANGED <<submissions, nextId, clock>>

\* verifyEnrolled, then the lookup of the existing submission, then the
\* update or the insert.
SubmitStep(c) ==
    /\ req[c].op = "submit"
    /\ LET r == req[c]
           existing == Single({s \in submissions :
                          s.assignment_id = r.arg.id /\ s.student_id = r.su.id})
       IN  \/ /\ r.pc = "enrolled"
              /\ IF verifyEnrolled(r.loc.course_id, r.su.id)
                 THEN Goto(c, r, "existing", NoRow)
                 ELSE Reply(c, r, 403, "Not enrolled in this course")
              /\ UNCHANGED <<db, session>>
           \/ /\ r.pc = "existing"
              /\ Goto(c, r, "write", [existing |-> existing.id])
              /\ UNCHANGED <<db, session>>
           \/ /\ r.pc = "write"
              /\ IF ExistingAtWrite(r) # 0 THEN SubmitUpdate(c, r) ELSE SubmitInsert(c, r)
              /\ UNCHANGED <<users, courses, enrollments, assignments, messages, session>>

\* parseInt of the grade a request gives, [kind |-> "number", n |-> 85] or
\* [kind |-> "string", s |-> <<"8", "5">>]: of a string the leading digits count;
\* NaN without any, which the store receives as null.
Digits == <<"0", "1", "2", "3", "4", "5", "6", "7", "8", "9">>
IsDigit(ch) == \E i \in 1..10 : Digits[i] = ch
DigitValue(ch) == (CHOOSE i \in 1..10 : Digits[i] = ch) - 1
RECURSIVE ParseDigits(_, _)
ParseDigits(str, acc) ==
    IF str = <<>> \/ ~IsDigit(Head(str)) THEN acc
    ELSE ParseDigits(Tail(str), 10 * acc + DigitValue(Head(str)))
ParseInt(grade) ==
    IF grade.kind = "number" THEN <<grade.n>>
    ELSE IF grade.s = <<>> \/ ~IsDigit(Head(grade.s)) THEN Null
    ELSE <<ParseDigits(grade.s, 0)>>

\* The update of a grading.
Graded(row, grade, feedback, now) ==
    [row EXCEPT !.grade = ParseInt(grade),
                !.feedback = IF feedback = Absent THEN <<"">> ELSE <<feedback>>,
                !.graded_at = <<now>>]

\* PUT /api/assignments/submissions/:id/grade.  body: [id, grade, feedback]
Grade(c, body) ==
    /\ Idle(c)
    /\ LET r == NewReq(c, "grade", body)
           gate == RouterUse(r.su, <<"submissions", ":id", "grade">>,
                             requireRole(r.su, TeacherRoles))
           submission == Single({s \in submissions : s.id = body.id})
       IN  IF gate # 0
           THEN Reply(c, r, gate, GateMsg(gate))
           ELSE IF body.grade.kind = "undefined" \/ body.grade.kind = "null"
           THEN Reply(c, r, 400, "Grade is required")
           ELSE IF submission = NoRow
           THEN Reply(c, r, 404, "Submission not found")
           ELSE Goto(c, r, "assignment", [assignment_id |-> submission.assignment_id])
    /\ UNCHANGED <<db, session>>

\* The read of the submission's assignment (assignment.course_id throws when
\* there is none), verifyTeacherOwns for a teacher, then the update.
GradeStep(c) ==
    /\ req[c].op = "grade"
    /\ LET r == req[c]
       IN  \/ /\ r.pc = "assignment"
              /\ LET assignment == Single({a \in assignments : a.id = r.loc.assignment_id})
                 IN  IF ~OwnershipEnforced(r.su)
                     THEN Goto(c, r, "update", NoRow)
                     ELSE IF assignment = NoRow
                     THEN Reply(c, r, 500, "Failed to grade submission")
                     ELSE Goto(c, r, "owns", [course_id |-> assignment.course_id])
              /\ UNCHANGED <<db, session>>
           \/ r.pc = "owns" /\ AssignmentOwns(c, r, "update")
           \/ /\ r.pc = "update"
              /\ LET row == Single({s \in submissions : s.id = r.arg.id})
                 IN  IF row = NoRow
                     THEN /\ Reply(c, r, 500, "Failed to grade submission")
                          /\ UNCHANGED <<submissions, clock>>
                     ELSE /\ clock <= MaxClock
                          /\ submissions' = (submissions \ {row})
                                 \cup {Graded(row, r.arg.grade, r.arg.feedback, Now)}
                          /\ Tick
                          /\ Reply(c, r, 200, "")
              /\ UNCHANGED <<users, courses, enrollments, assignments, messages, nextId,
                             session>>

----------------------------------------------------------------------------
(* routes/courses: enrollment *)

\* (mutant) a store that lets the pair in again
EnrollmentNeverConflicts(studentId, courseId) == FALSE

\* The unique constraint on enrollments (student_id, course_id): whether the
\* insert of the pair raises 23505.
EnrollmentConflict(studentId, courseId) ==
    \E e \in enrollments : e.student_id = studentId /\ e.course_id = courseId

\* POST /api/courses/:id/enroll.  body: [id]
Enroll(c, body) ==
    /\ Idle(c)
    /\ LET r == NewReq(c, "enroll", body)
           gate == RouterUse(r.su, <<":id", "enroll">>,
                             requireRole(r.su, {"student"}))
       IN  IF gate # 0
           THEN /\ Reply(c, r, gate, GateMsg(gate))
                /\ UNCHANGED <<enrollments, nextId>>
           ELSE IF EnrollmentConflict(r.su.id, body.id)
           THEN /\ Reply(c, r, 400, "Already enrolled in this course")
                /\ UNCHANGED <<enrollments, nextId>>
           ELSE IF ~(\E k \in courses : k.id = body.id) \/ ~(\E u \in users : u.id = r.su.id)
           THEN /\ Reply(c, r, 500, "Failed to enroll")
                /\ UNCHANGED <<enrollments, nextId>>
           ELSE /\ nextId["enrollments"] <= MaxId
                /\ enrollments' = enrollments \cup
                       {[id |-> nextId["enrollments"], student_id |-> r.su.id,
                         course_id |-> body.id]}
                /\ Alloc("enrollments")
                /\ Reply(c, r, 200, "")
    /\ UNCHANGED <<users, courses, assignments, submissions, messages, clock, session>>

\* DELETE /api/courses/:id/unenroll.  body: [id]
Unenroll(c, body) ==
    /\ Idle(c)
    /\ LET r == NewReq(c, "unenroll", body)
           gate == RouterUse(r.su, <<":id", "unenroll">>,
                             requireRole(r.su, {"student"}))
       IN  IF gate # 0
           THEN /\ Reply(c, r, gate, GateMsg(gate))
                /\ UNCHANGED enrollments
           ELSE /\ enrollments' = {e \in enrollments :
                       ~(e.student_id = r.su.id /\ e.course_id = body.id)}
                /\ Reply(c, r, 200, "")
    /\ UNCHANGED <<users, courses, assignments, submissions, messages, nextId, clock, session>>

----------------------------------------------------------------------------
(* Listings.  loc.rows holds the ids of the rows an answer shows; the lookups
   that only attach names and counts to the rows are left out. *)

\* .in('id', courseIds).eq('is_active', true)
ActiveCoursesWithIds(ids) ==
    {k.id : k \in {x \in courses : x.id \in ids /\ x.is_active}}

\* The answer 200 with the rows.
ReplyRows(c, r, rows) == Reply(c, [r EXCEPT !.loc = [rows |-> rows]], 200, "")

\* GET /api/courses: a student's enrollments are read first; a teacher's own
\* courses, or all courses, are read at once.
CourseList(c) ==
    /\ Idle(c)
    /\ LET r == NewReq(c, "courseList", NoRow)
           gate == requireAuth(r.su, <<>>)
           ids == {e.course_id : e \in {x \in enrollments : x.student_id = r.su.id}}
       IN  IF gate # 0
           THEN Reply(c, r, gate, GateMsg(gate))
           ELSE IF r.su.role = "student"
           THEN IF ids = {}
                THEN ReplyRows(c, r, {})
                ELSE Goto(c, r, "courses", [course_ids |-> ids])
           ELSE IF r.su.role = "teacher"
           THEN ReplyRows(c, r, {k.id : k \in {x \in courses : x.teacher_id = r.su.id}})
           ELSE ReplyRows(c, r, {k.id : k \in courses})
    /\ UNCHANGED <<db, session>>

\* GET /api/courses of a student: the read of the enrolled, active courses.
CourseListStep(c) ==
    /\ req[c].op = "courseList" /\ req[c].pc = "courses"
    /\ ReplyRows(c, req[c], ActiveCoursesWithIds(req[c].loc.course_ids))
    /\ UNCHANGED <<db, session>>

\* GET /api/courses/available
AvailableCourses(c) ==
    /\ Idle(c)
    /\ LET r == NewReq(c, "availableCourses", NoRow)
           gate == RouterUse(r.su, <<"available">>,
                             requireRole(r.su, {"student"}))
       IN  IF gate # 0
           THEN Reply(c, r, gate, GateMsg(gate))
           ELSE ReplyRows(c, r, {k.id : k \in {x \in courses : x.is_active}})
    /\ UNCHANGED <<db, session>>

\* The assignments GET /api/assignments/course/:courseId lists.
AssignmentsOfCourse(courseId) ==
    {a.id : a \in {x \in assignments : x.course_id = courseId}}

\* GET /api/assignments/course/:courseId: the access check of a student
\* (enrolled) or a teacher (owner); a master teacher has none.  body: [id]
CourseAssignments(c, body) ==
    /\ Idle(c)
    /\ LET r == NewReq(c, "courseAssignments", body)
           gate == requireAuth(r.su, <<"course", ":courseId">>)
       IN  IF gate # 0
           THEN Reply(c, r, gate, GateMsg(gate))
           ELSE IF r.su.role = "student"
           THEN IF verifyEnrolled(body.id, r.su.id)
                THEN Goto(c, r, "list", NoRow)
                ELSE Reply(c, r, 403, "Not enrolled in this course")
           ELSE IF r.su.role = "teacher"
           THEN IF verifyTeacherOwns(body.id, r.su.id)
                THEN Goto(c, r, "list", NoRow)
                ELSE Reply(c, r, 403, "Not your course")
           ELSE ReplyRows(c, r, AssignmentsOfCourse(body.id))
    /\ UNCHANGED <<db, session>>

\* GET /api/assignments/course/:courseId: the read of the assignments.
CourseAssignmentsStep(c) ==
    /\ req[c].op = "courseAssignments" /\ req[c].pc = "list"
    /\ ReplyRows(c, req[c], AssignmentsOfCourse(req[c].arg.id))
    /\ UNCHANGED <<db, session>>

----------------------------------------------------------------------------
(* routes/assignments: the grading queue and the student's submissions *)

\* .order('submitted_at', { ascending: true }): the orders in which the store
\* may return the rows, as sequences of their ids.
OrderedBySubmittedAt(rows) ==
    {q \in [1..Cardinality(rows) -> {x.id : x \in rows}] :
        /\ \A i, j \in DOMAIN q : i # j => q[i] # q[j]
        /\ \A i, j \in DOMAIN q :
               i < j => \A x, y \in rows :
                            (x.id = q[i] /\ y.id = q[j])
                                => x.submitted_at[1] <= y.submitted_at[1]}

\* GET /api/assignments/pending-grading, the read of the caller's courses.
PendingGrading(c) ==
    /\ Idle(c)
    /\ LET r == NewReq(c, "pendingGrading", NoRow)
           gate == RouterUse(r.su, <<"pending-grading">>,
                             requireRole(r.su, TeacherRoles))
           ids == {k.id : k \in {x \in courses : x.teacher_id = r.su.id}}
       IN  IF gate # 0
           THEN Reply(c, r, gate, GateMsg(gate))
           ELSE IF ids = {}
           THEN Reply(c, [r EXCEPT !.loc = [queue |-> <<>>]], 200, "")
           ELSE Goto(c, r, "assignments", [course_ids |-> ids])
    /\ UNCHANGED <<db, session>>

\* GET /api/assignments/pending-grading: the read of the assignments of the
\* courses, then the read of their submissions without grade, in order, then
\* the lookups of the students (in one segment) and the answer; loc.queue is
\* what the answer lists.
PendingGradingStep(c) ==
    /\ req[c].op = "pendingGrading"
    /\ LET r == req[c]
       IN  \/ /\ r.pc = "assignments"
              /\ LET ids == {a.id : a \in {x \in assignments :
                                              x.course_id \in r.loc.course_ids}}
                 IN  IF ids = {}
                     THEN Reply(c, [r EXCEPT !.loc = [queue |-> <<>>]], 200, "")
                     ELSE Goto(c, r, "submissions", [assignment_ids |-> ids])
           \/ /\ r.pc = "submissions"
              /\ LET rows == {x \in submissions :
                                 x.assignment_id \in r.loc.assignment_ids /\ x.grade = Null}
                 IN  \E q \in OrderedBySubmittedAt(rows) :
                         Goto(c, r, "attach", [queue |-> q])
           \/ /\ r.pc = "attach"
              /\ Reply(c, r, 200, "")
    /\ UNCHANGED <<db, session>>

\* GET /api/assignments/my-submissions, the read of the caller's submissions.
MySubmissions(c) ==
    /\ Idle(c)
    /\ LET r == NewReq(c, "mySubmissions", NoRow)
           gate == RouterUse(r.su, <<"my-submissions">>,
                             requireRole(r.su, {"student"}))
       IN  IF gate # 0
           THEN Reply(c, r, gate, GateMsg(gate))
           ELSE Goto(c, r, "attach",
                     [subs |-> {x \in submissions : x.student_id = r.su.id}])
    /\ UNCHANGED <<db, session>>

\* sub.course_name: the name of the course of the submission's assignment,
\* '' when the course is not found; nothing is attached without assignment.
CourseNameOf(sub) ==
    LET a == Single({x \in assignments : x.id = sub.assignment_id})
        k == Single({x \in courses : x.id = a.course_id})
    IN  IF a = NoRow THEN Null
        ELSE IF k = NoRow THEN <<"">> ELSE <<k.name>>

\* GET /api/assignments/my-submissions: the lookups of assignment and course
\* of each submission (in one segment), and the answer; loc.shown is what it
\* shows of each submission.
MySubmissionsStep(c) ==
    /\ req[c].op = "mySubmissions" /\ req[c].pc = "attach"
    /\ Reply(c, [req[c] EXCEPT !.loc =
              [shown |-> {[id |-> x.id, grade |-> x.grade,
                           course_name |-> CourseNameOf(x)] : x \in req[c].loc.subs}]],
             200, "")
    /\ UNCHANGED <<db, session>>

----------------------------------------------------------------------------
(* routes/messages *)

\* The insert of a message: created_at is the store's now(), is_read false.
NewMessage(id, senderId, receiverId, content, now) ==
    [id |-> id, sender_id |-> senderId, receiver_id |-> receiverId,
     content |-> content, created_at |-> now, is_read |-> FALSE]

\* POST /api/messages/send, to the lookup of the receiver.
\* body: [receiver_id (0 when none), content]
Send(c, body) ==
    /\ Idle(c)
    /\ LET r == NewReq(c, "send", body)
           gate == requireAuth(r.su, <<"send">>)
           receiver == Single({u \in users : u.id = body.receiver_id})
       IN  IF gate # 0
           THEN Reply(c, r, gate, GateMsg(gate))
           ELSE IF body.receiver_id = 0 \/ body.content = Absent \/ body.content = ""
           THEN Reply(c, r, 400, "Receiver and content are required")
           ELSE IF receiver = NoRow
           THEN Reply(c, r, 404, "Recipient not found")
           ELSE Goto(c, r, "insert", NoRow)
    /\ UNCHANGED <<db, session>>

\* POST /api/messages/send, the insert; sender_id and receiver_id are
\* foreign keys.
SendStep(c) ==
    /\ req[c].op = "send" /\ req[c].pc = "insert"
    /\ LET r == req[c]
       IN  IF /\ \E u \in users : u.id = r.su.id
              /\ \E u \in users : u.id = r.arg.receiver_id
           THEN /\ clock <= MaxClock
                /\ nextId["messages"] <= MaxId
                /\ messages' = messages \cup
                       {NewMessage(nextId["messages"], r.su.id, r.arg.receiver_id,
                                   r.arg.content, Now)}
                /\ Alloc("messages")
                /\ Tick
                /\ Reply(c, r, 200, "")
           ELSE /\ Reply(c, r, 500, "Failed to send message")
                /\ UNCHANGED <<messages, nextId, clock>>
    /\ UNCHANGED <<users, courses, enrollments, assignments, submissions, session>>

\* The messages between two users.
Between(userId, partnerId) ==
    {m \in messages :
        \/ m.sender_id = userId /\ m.receiver_id = partnerId
        \/ m.sender_id = partnerId /\ m.receiver_id = userId}

\* (mutant) an update that marks nothing
MarksNothing(userId, partnerId) == {}

\* (mutant) an update that marks the unread messages between the two
MarksBothWays(userId, partnerId) == {m \in Between(userId, partnerId) : ~m.is_read}

\* .eq('sender_id', partnerId).eq('receiver_id', userId).eq('is_read', false):
\* the messages the conversation fetch marks as read.
MarkedAsRead(userId, partnerId) ==
    {m \in messages :
        m.sender_id = partnerId /\ m.receiver_id = userId /\ ~m.is_read}

\* GET /api/messages/conversation/:userId, the read of the messages between
\* the two; loc.rows is what the answer shows.  body: [id]
Conversation(c, body) ==
    /\ Idle(c)
    /\ LET r == NewReq(c, "conversation", body)
           gate == requireAuth(r.su, <<"conversation", ":userId">>)
       IN  IF gate # 0
           THEN Reply(c, r, gate, GateMsg(gate))
           ELSE Goto(c, r, "mark", [rows |-> {m.id : m \in Between(r.su.id, body.id)}])
    /\ UNCHANGED <<db, session>>

\* GET /api/messages/conversation/:userId: the update that marks the
\* received messages as read, then the lookup of the partner and the answer.
ConversationStep(c) ==
    /\ req[c].op = "conversation"
    /\ LET r == req[c]
           marked == MarkedAsRead(r.su.id, r.arg.id)
       IN  \/ /\ r.pc = "mark"
              /\ messages' = (messages \ marked) \cup
                     {[m EXCEPT !.is_read = TRUE] : m \in marked}
              /\ Goto(c, r, "partner", r.loc)
           \/ /\ r.pc = "partner"
              /\ Reply(c, r, 200, "")
              /\ UNCHANGED messages
    /\ UNCHANGED <<users, courses, enrollments, assignments, submissions, nextId, clock,
                   session>>

\* GET /api/messages/unread-count; loc.count is the count of the answer.
UnreadCount(c) ==
    /\ Idle(c)
    /\ LET r == NewReq(c, "unreadCount", NoRow)
           gate == requireAuth(r.su, <<"unread-count">>)
           unread == {m \in messages : m.receiver_id = r.su.id /\ ~m.is_read}
       IN  IF gate # 0
           THEN Reply(c, r, gate, GateMsg(gate))
           ELSE Reply(c, [r EXCEPT !.loc = [count |-> Cardinality(unread)]], 200, "")
    /\ UNCHANGED <<db, session>>

\* .order('created_at', { ascending: false }): the orders in which the store
\* may return the rows, as sequences of the rows.
OrderedByCreatedAt(rows) ==
    {q \in [1..Cardinality(rows) -> rows] :
        /\ \A i, j \in DOMAIN q : i # j => q[i] # q[j]
        /\ \A i, j \in DOMAIN q : i < j => q[i].created_at >= q[j].created_at}

\* (mutant) an entry of the conversation map is never replaced
FirstSeen(m, convMap, partnerId) == partnerId \notin DOMAIN convMap

\* !convMap[partnerId] || new Date(m.created_at) > new Date(convMap[partnerId].last_at)
Newer(m, convMap, partnerId) ==
    \/ partnerId \notin DOMAIN convMap
    \/ m.created_at > convMap[partnerId].last_at

\* convMap[partnerId] = {partner_id, last_message, last_at, unread: 0}
WithEntry(convMap, partnerId, m) ==
    [p \in DOMAIN convMap \cup {partnerId} |->
        IF p = partnerId
        THEN [partner_id |-> partnerId, last_message |-> m.content,
              last_at |-> m.created_at, unread |-> 0]
        ELSE convMap[p]]

\* The body of sent.forEach
AddSent(convMap, m) ==
    IF Newer(m, convMap, m.receiver_id)
    THEN WithEntry(convMap, m.receiver_id, m)
    ELSE convMap

\* The body of received.forEach
AddReceived(convMap, m) ==
    LET entered == IF Newer(m, convMap, m.sender_id)
                   THEN WithEntry(convMap, m.sender_id, m)
                   ELSE convMap
    IN  IF ~m.is_read
        THEN [entered EXCEPT ![m.sender_id].unread = @ + 1]
        ELSE entered

RECURSIVE ForEachSent(_, _)
ForEachSent(convMap, sent) ==
    IF sent = <<>> THEN convMap
    ELSE ForEachSent(AddSent(convMap, Head(sent)), Tail(sent))

RECURSIVE ForEachReceived(_, _)
ForEachReceived(convMap, received) ==
    IF received = <<>> THEN convMap
    ELSE ForEachReceived(AddReceived(convMap, Head(received)), Tail(received))

\* Object.values(convMap) sorted by last_at, the latest first: the orders
\* the sort may leave (entries with the same last_at keep the order of the
\* keys of the map, which depends on the kind of the ids).
SortedByLastAt(convMap) ==
    {q \in [1..Cardinality(DOMAIN convMap) -> {convMap[p] : p \in DOMAIN convMap}] :
        /\ \A i, j \in DOMAIN q : i # j => q[i] # q[j]
        /\ \A i, j \in DOMAIN q : i < j => q[i].last_at >= q[j].last_at}

\* GET /api/messages/conversations, the read of the messages the caller sent.
Conversations(c) ==
    /\ Idle(c)
    /\ LET r == NewReq(c, "conversations", NoRow)
           gate == requireAuth(r.su, <<"conversations">>)
       IN  IF gate # 0
           THEN Reply(c, r, gate, GateMsg(gate))
           ELSE \E sent \in OrderedByCreatedAt({m \in messages : m.sender_id = r.su.id}) :
                    Goto(c, r, "received", [sent |-> sent])
    /\ UNCHANGED <<db, session>>

\* GET /api/messages/conversations: the read of the messages the caller
\* received and the making of the list, then the lookups of the partners (in
\* one segment) and the answer; loc.convs is what the answer lists.
ConversationsStep(c) ==
    /\ req[c].op = "conversations"
    /\ LET r == req[c]
       IN  \/ /\ r.pc = "received"
              /\ \E received \in
                     OrderedByCreatedAt({m \in messages : m.receiver_id = r.su.id}) :
                   \E convs \in SortedByLastAt(
                           ForEachReceived(ForEachSent(<<>>, r.loc.sent), received)) :
                       Goto(c, r, "partners", [convs |-> convs])
           \/ /\ r.pc = "partners"
              /\ Reply(c, r, 200, "")
    /\ UNCHANGED <<db, session>>

\* The ids of the users with an id among ids: .in('id', ids).
UsersAmong(ids) == {u.id : u \in {x \in users : x.id \in ids}}

\* GET /api/messages/contacts, the first read: the enrollments of a student,
\* the courses of a teacher, every other user for anyone else.
\* loc.contact_ids holds the ids of the users the answer lists.
Contacts(c) ==
    /\ Idle(c)
    /\ LET r == NewReq(c, "contacts", NoRow)
           gate == requireAuth(r.su, <<"contacts">>)
           enrolled == {e.course_id : e \in {x \in enrollments : x.student_id = r.su.id}}
           taught == {k.id : k \in {x \in courses : x.teacher_id = r.su.id}}
           listed(ids) == Reply(c, [r EXCEPT !.loc = [contact_ids |-> ids]], 200, "")
       IN  IF gate # 0
           THEN Reply(c, r, gate, GateMsg(gate))
           ELSE IF r.su.role = "student"
           THEN IF enrolled = {}
                THEN listed({})
                ELSE Goto(c, r, "courses", [course_ids |-> enrolled])
           ELSE IF r.su.role = "teacher"
           THEN IF taught = {}
                THEN listed({})
                ELSE Goto(c, r, "enrollments", [course_ids |-> taught])
           ELSE listed({u.id : u \in {x \in users : x.id # r.su.id}})
    /\ UNCHANGED <<db, session>>

\* GET /api/messages/contacts: of a student, the read of the teachers' ids of
\* the courses and then of the teachers; of a teacher, the read of the
\* students' ids of the enrollments and then of the students.
ContactsStep(c) ==
    /\ req[c].op = "contacts"
    /\ LET r == req[c]
           listed(ids) == Reply(c, [r EXCEPT !.loc = [contact_ids |-> ids]], 200, "")
           found(ids) == IF ids = {} THEN listed({})
                         ELSE Goto(c, r, "users", [user_ids |-> ids])
       IN  \/ /\ r.pc = "courses"
              /\ found({k.teacher_id : k \in {x \in courses : x.id \in r.loc.course_ids}})
           \/ /\ r.pc = "enrollments"
              /\ found({e.student_id : e \in
                           {x \in enrollments : x.course_id \in r.loc.course_ids}})
           \/ /\ r.pc = "users"
              /\ listed(UsersAmong(r.loc.user_ids))
    /\ UNCHANGED <<db, session>>

----------------------------------------------------------------------------
(* Initial states. *)

\* The seeded administrator: master_teacher cannot be registered.
Admin == [id |-> 1, email |-> "root@x", password |-> Hash("rootpw"),
          role |-> "master_teacher", is_approved |-> TRUE]

Init ==
    /\ users = {Admin}
    /\ courses = {} /\ enrollments = {} /\ assignments = {}
    /\ submissions = {} /\ messages = {}
    /\ nextId = [t \in Tables |-> IF t = "users" THEN 2 ELSE 1]
    /\ clock = 1
    /\ session = [c \in Clients |-> NoUser]
    /\ req = [c \in Clients |-> NoReq]

----------------------------------------------------------------------------
(* Users of the seeded schools. *)

Ann == [id |-> 2, email |-> "ann@x", password |-> Hash("secret"),
        role |-> "teacher", is_approved |-> TRUE]
Tom == [id |-> 3, email |-> "tom@x", password |-> Hash("secret"),
        role |-> "teacher", is_approved |-> FALSE]

Bo == [id |-> 4, email |-> "bo@x", password |-> Hash("secret"),
       role |-> "student", is_approved |-> TRUE]
Cy == [id |-> 5, email |-> "cy@x", password |-> Hash("secret"),
       role |-> "student", is_approved |-> TRUE]

SessionOf(user) == [id |-> user.id, role |-> user.role, isApproved |-> user.is_approved]

\* The school after Ann and Tom, both approved, created a course each.
Algebra == [id |-> 1, teacher_id |-> Ann.id, name |-> "algebra", is_active |-> TRUE,
            updated_at |-> Null]
Biology == [id |-> 2, teacher_id |-> Tom.id, name |-> "biology", is_active |-> TRUE,
            updated_at |-> Null]
School == {Admin, Ann, [Tom EXCEPT !.is_approved = TRUE], Bo, Cy}

\* The first assignment of Ann's course.
Hw1 == [id |-> 1, course_id |-> 1, title |-> "hw1", due_date |-> Null]

----------------------------------------------------------------------------
(* Course ownership: two approved, logged-in teachers, Ann (c2) and Tom (c3),
   create, update and deactivate courses, each also the other's. *)

InitCourse ==
    /\ users = {Admin, Ann, [Tom EXCEPT !.is_approved = TRUE]}
    /\ courses = {} /\ enrollments = {} /\ assignments = {}
    /\ submissions = {} /\ messages = {}
    /\ nextId = [t \in Tables |-> IF t = "users" THEN 4 ELSE 1]
    /\ clock = 1
    /\ session = [c \in Clients |->
           IF c = "c1" THEN SessionOf(Admin)
           ELSE IF c = "c2" THEN SessionOf(Ann)
           ELSE SessionOf([Tom EXCEPT !.is_approved = TRUE])]
    /\ req = [c \in Clients |-> NoReq]

CourseUpdateBodies ==
    [id : {1, 2}, name : {"calculus"}, is_active : {NotGiven}]
        \cup [id : {1, 2}, name : {Absent}, is_active : {<<FALSE>>}]

NextCourse ==
    \/ \E c \in {"c2", "c3"} :
        \/ CourseCreate(c, [name |-> "algebra"])
        \/ CourseCreateStep(c)
        \/ \E body \in CourseUpdateBodies : CourseUpdate(c, body)
        \/ CourseUpdateStep(c)
        \/ \E id \in {1, 2} : CourseDelete(c, [id |-> id])
        \/ CourseDeleteStep(c)

SpecCourse == InitCourse /\ [][NextCourse]_vars

----------------------------------------------------------------------------
(* Approval: Ann, a registered teacher, logs in (c2) and creates, updates and
   deactivates courses and creates assignments, while the administrator (c1)
   approves, rejects and deletes her, and creates a course too. *)

InitApproval ==
    /\ \E approved \in BOOLEAN : users = {Admin, [Ann EXCEPT !.is_approved = approved]}
    /\ courses = {} /\ enrollments = {} /\ assignments = {}
    /\ submissions = {} /\ messages = {}
    /\ nextId = [t \in Tables |-> IF t = "users" THEN 3 ELSE 1]
    /\ clock = 1
    /\ session = [c \in Clients |-> IF c = "c1" THEN SessionOf(Admin) ELSE NoUser]
    /\ req = [c \in Clients |-> NoReq]

NextApproval ==
    \/ Login("c2", "ann@x", "secret")
    \/ Approve("c1", [id |-> 2])
    \/ Reject("c1", [id |-> 2])
    \/ DeleteUser("c1", [id |-> 2])
    \/ DeleteUserRefused("c1", [id |-> 2])
    \/ CourseCreate("c1", [name |-> "algebra"])
    \/ CourseCreate("c2", [name |-> "algebra"])
    \/ CourseCreateStep("c2")
    \/ CourseUpdate("c2", [id |-> 1, name |-> "calculus", is_active |-> NotGiven])
    \/ CourseUpdateStep("c2")
    \/ CourseDelete("c2", [id |-> 1])
    \/ CourseDeleteStep("c2")
    \/ \E title \in {Absent, "hw1"} : AssignmentCreate("c2", [course_id |-> 1, title |-> title])
    \/ AssignmentCreateStep("c2")
    \/ AssignmentUpdate("c2", [id |-> 1, title |-> "hw2", due_date |-> NoDate])
    \/ AssignmentUpdateStep("c2")
    \/ AssignmentDelete("c2", [id |-> 1])
    \/ AssignmentDeleteStep("c2")

SpecApproval == InitApproval /\ [][NextApproval]_vars

----------------------------------------------------------------------------
(* Assignments and grading: in the school, Bo is enrolled in Ann's course and
   has submitted her first assignment.  Ann (c2) and Tom (c3) create, update
   and delete assignments, list submissions and grade, each also under the
   other's course; the administrator (c1) updates and grades. *)

InitAssign ==
    /\ users = School
    /\ courses = {Algebra, Biology}
    /\ enrollments = {[id |-> 1, student_id |-> Bo.id, course_id |-> 1]}
    /\ assignments = {Hw1}
    /\ submissions = {NewSubmission(1, 1, Bo.id, "answer", 1)}
    /\ messages = {}
    /\ nextId = [t \in Tables |->
           IF t = "users" THEN 6
           ELSE IF t = "courses" THEN 3
           ELSE IF t = "messages" THEN 1 ELSE 2]
    /\ clock = 2
    /\ session = [c \in Clients |->
           IF c = "c1" THEN SessionOf(Admin)
           ELSE IF c = "c2" THEN SessionOf(Ann)
           ELSE SessionOf([Tom EXCEPT !.is_approved = TRUE])]
    /\ req = [c \in Clients |-> NoReq]

GradeBodies ==
    {[id |-> 1, grade |-> [kind |-> "number", n |-> 85], feedback |-> "good"],
     [id |-> 1, grade |-> [kind |-> "undefined"], feedback |-> Absent]}

NextAssign ==
    \/ \E c \in {"c2", "c3"} :
        \/ \E k \in {1, 2}, title \in {"hw2"} :
               AssignmentCreate(c, [course_id |-> k, title |-> title])
        \/ AssignmentCreateStep(c)
        \/ AssignmentUpdate(c, [id |-> 1, title |-> "essay", due_date |-> NoDate])
        \/ AssignmentUpdateStep(c)
        \/ AssignmentDelete(c, [id |-> 1])
        \/ AssignmentDeleteStep(c)
        \/ AssignmentDeleteRefused(c)
        \/ ListSubmissions(c, [id |-> 1])
        \/ ListSubmissionsStep(c)
        \/ \E body \in GradeBodies : Grade(c, body)
        \/ GradeStep(c)
    \/ AssignmentUpdate("c1", [id |-> 1, title |-> "essay", due_date |-> NoDate])
    \/ AssignmentUpdateStep("c1")
    \/ Grade("c1", [id |-> 1, grade |-> [kind |-> "string", s |-> <<"9", "x">>],
                    feedback |-> Absent])
    \/ GradeStep("c1")

SpecAssign == InitAssign /\ [][NextAssign]_vars

----------------------------------------------------------------------------
(* The authentication router alone: two clients register, log in and out. *)

AuthClients == {"c1", "c2"}
AuthEmails == {"ann@x", "root@x"}
AuthPasswords == {"", "short", "secret"}
RegisterBodies ==
    [names : BOOLEAN, email : {"ann@x"}, password : {"short", "secret"},
     role : {"teacher", "master_teacher"}]
        \cup
    [names : {TRUE}, email : {"", "bo@x"}, password : {"secret"}, role : {Absent}]

NextAuth ==
    \E c \in AuthClients :
        \/ \E body \in RegisterBodies : Register(c, body)
        \/ RegisterInsert(c)
        \/ RegisterInsertRefused(c)
        \/ \E e \in AuthEmails \cup {""}, p \in AuthPasswords : Login(c, e, p)
        \/ Logout(c)

SpecAuth == Init /\ [][NextAuth]_vars

----------------------------------------------------------------------------
(* Enrollment: Bo holds two sessions (c1, c2: two browsers) and Cy one (c3);
   they enroll in and unenroll from the two courses and a course that does
   not exist. *)

InitEnroll ==
    /\ users = School
    /\ courses = {Algebra, Biology}
    /\ enrollments = {} /\ assignments = {}
    /\ submissions = {} /\ messages = {}
    /\ nextId = [t \in Tables |->
           IF t = "users" THEN 6 ELSE IF t = "courses" THEN 3 ELSE 1]
    /\ clock = 1
    /\ session = [c \in Clients |->
           IF c = "c3" THEN SessionOf(Cy) ELSE SessionOf(Bo)]
    /\ req = [c \in Clients |-> NoReq]

NextEnroll ==
    \E c \in Clients :
        \/ \E k \in {1, 2, 3} : Enroll(c, [id |-> k])
        \/ \E k \in {1, 2} : Unenroll(c, [id |-> k])

SpecEnroll == InitEnroll /\ [][NextEnroll]_vars

----------------------------------------------------------------------------
(* Submitting one after another: Bo, enrolled in Ann's course, holds one
   session (c1) and so has one submit request at a time; Ann (c3) grades. *)

InitResubmit ==
    /\ users = School
    /\ courses = {Algebra, Biology}
    /\ enrollments = {[id |-> 1, student_id |-> Bo.id, course_id |-> 1]}
    /\ assignments = {Hw1}
    /\ submissions = {} /\ messages = {}
    /\ nextId = [t \in Tables |->
           IF t = "users" THEN 6
           ELSE IF t = "courses" THEN 3
           ELSE IF t \in {"enrollments", "assignments"} THEN 2 ELSE 1]
    /\ clock = 1
    /\ session = [c \in Clients |->
           IF c = "c1" THEN SessionOf(Bo)
           ELSE IF c = "c3" THEN SessionOf(Ann) ELSE NoUser]
    /\ req = [c \in Clients |-> NoReq]

SubmitBodies ==
    {[id |-> 1, content |-> "answer"], [id |-> 1, content |-> "essay"]}

NextResubmit ==
    \/ \E body \in SubmitBodies : Submit("c1", body)
    \/ SubmitStep("c1")
    \/ Grade("c3", [id |-> 1, grade |-> [kind |-> "number", n |-> 85],
                    feedback |-> "good"])
    \/ GradeStep("c3")

SpecResubmit == InitResubmit /\ [][NextResubmit]_vars

----------------------------------------------------------------------------
(* Overlapping submissions: Bo holds two sessions (c1, c2) and submits to
   Ann's assignment from both, and enrolls and unenrolls; Ann (c3) deletes
   the assignment and deactivates the course. *)

InitSubmit ==
    /\ users = School
    /\ courses = {Algebra, Biology}
    /\ enrollments = {[id |-> 1, student_id |-> Bo.id, course_id |-> 1]}
    /\ assignments = {Hw1}
    /\ submissions = {} /\ messages = {}
    /\ nextId = [t \in Tables |->
           IF t = "users" THEN 6
           ELSE IF t = "courses" THEN 3
           ELSE IF t \in {"enrollments", "assignments"} THEN 2 ELSE 1]
    /\ clock = 1
    /\ session = [c \in Clients |->
           IF c = "c3" THEN SessionOf(Ann) ELSE SessionOf(Bo)]
    /\ req = [c \in Clients |-> NoReq]

NextSubmit ==
    \/ \E c \in {"c1", "c2"} :
        \/ \E body \in SubmitBodies : Submit(c, body)
        \/ SubmitStep(c)
    \/ Enroll("c1", [id |-> 1])
    \/ Unenroll("c1", [id |-> 1])
    \/ AssignmentDelete("c3", [id |-> 1])
    \/ AssignmentDeleteStep("c3")
    \/ AssignmentDeleteRefused("c3")
    \/ CourseDelete("c3", [id |-> 1])
    \/ CourseDeleteStep("c3")

SpecSubmit == InitSubmit /\ [][NextSubmit]_vars

----------------------------------------------------------------------------
(* Administration: the administrator (c1) edits, approves, rejects, promotes
   and deletes the users Admin (1), Ann (2), Bo (4) and a user that does not
   exist (5); Ann (c2) logs in and calls the admin routes too, as a teacher
   and, once promoted and logged in again, as a master teacher. *)

InitAdmin ==
    /\ users = {Admin, Ann, Bo}
    /\ courses = {} /\ enrollments = {} /\ assignments = {}
    /\ submissions = {} /\ messages = {}
    /\ nextId = [t \in Tables |-> IF t = "users" THEN 6 ELSE 1]
    /\ clock = 1
    /\ session = [c \in Clients |-> IF c = "c1" THEN SessionOf(Admin) ELSE NoUser]
    /\ req = [c \in Clients |-> NoReq]

EditBodies ==
    {[id |-> 1, email |-> Absent, role |-> "student"],
     [id |-> 1, email |-> Absent, role |-> "master_teacher"],
     [id |-> 1, email |-> "new@x", role |-> Absent],
     [id |-> 2, email |-> Absent, role |-> "master_teacher"],
     [id |-> 2, email |-> Absent, role |-> "guest"],
     [id |-> 4, email |-> "new@x", role |-> "teacher"],
     [id |-> 5, email |-> Absent, role |-> "teacher"]}

NextAdmin ==
    \/ \E body \in EditBodies : EditUser("c1", body) \/ EditUserRefused("c1", body)
    \/ \E id \in {1, 2, 4, 5} : Approve("c1", [id |-> id]) \/ Reject("c1", [id |-> id])
    \/ \E id \in {2, 5} : Promote("c1", [id |-> id])
    \/ \E id \in {1, 4} : DeleteUser("c1", [id |-> id])
    \/ Login("c2", "ann@x", "secret")
    \/ Promote("c2", [id |-> 4])
    \/ EditUser("c2", [id |-> 2, email |-> Absent, role |-> "teacher"])
    \/ DeleteUser("c2", [id |-> 2])

SpecAdmin == InitAdmin /\ [][NextAdmin]_vars

----------------------------------------------------------------------------
(* Registration: two clients register with every kind of requested role and
   log out. *)

RequestedRoles == {Absent, "student", "teacher", "master_teacher", "guest"}

NextRegister ==
    \E c \in AuthClients :
        \/ \E e \in {"ann@x", "bo@x"}, role \in RequestedRoles :
               Register(c, [names |-> TRUE, email |-> e, password |-> "secret",
                            role |-> role])
        \/ RegisterInsert(c)
        \/ RegisterInsertRefused(c)
        \/ Logout(c)

SpecRegister == Init /\ [][NextRegister]_vars

----------------------------------------------------------------------------
(* Deactivation: Bo (c1), enrolled in Ann's course with its assignment
   submitted, and Cy (c2), not enrolled, list courses and assignments and
   enroll, while Ann (c3) deactivates the course and lists too. *)

InitSoftDelete ==
    /\ users = School
    /\ courses = {Algebra, Biology}
    /\ enrollments = {[id |-> 1, student_id |-> Bo.id, course_id |-> 1]}
    /\ assignments = {Hw1}
    /\ submissions = {NewSubmission(1, 1, Bo.id, "answer", 1)}
    /\ messages = {}
    /\ nextId = [t \in Tables |->
           IF t = "users" THEN 6
           ELSE IF t = "courses" THEN 3
           ELSE IF t = "messages" THEN 1 ELSE 2]
    /\ clock = 2
    /\ session = [c \in Clients |->
           IF c = "c1" THEN SessionOf(Bo)
           ELSE IF c = "c2" THEN SessionOf(Cy) ELSE SessionOf(Ann)]
    /\ req = [c \in Clients |-> NoReq]

NextSoftDelete ==
    \/ \E c \in {"c1", "c2"} :
        \/ CourseList(c)
        \/ CourseListStep(c)
        \/ AvailableCourses(c)
        \/ CourseAssignments(c, [id |-> 1])
        \/ CourseAssignmentsStep(c)
    \/ Enroll("c2", [id |-> 1])
    \/ CourseList("c3")
    \/ CourseAssignments("c3", [id |-> 1])
    \/ CourseAssignmentsStep("c3")
    \/ CourseDelete("c3", [id |-> 1])
    \/ CourseDeleteStep("c3")

SpecSoftDelete == InitSoftDelete /\ [][NextSoftDelete]_vars

----------------------------------------------------------------------------
(* Partial updates: Ann (c2) and the administrator (c1) update the first
   assignment of Ann's course, which is due on Monday, with bodies that give
   or leave out the title and the due date, and Ann creates another. *)

InitAssignUpdate ==
    /\ users = School
    /\ courses = {Algebra, Biology}
    /\ enrollments = {}
    /\ assignments = {[Hw1 EXCEPT !.due_date = <<"mon">>]}
    /\ submissions = {} /\ messages = {}
    /\ nextId = [t \in Tables |->
           IF t = "users" THEN 6
           ELSE IF t = "courses" THEN 3
           ELSE IF t = "assignments" THEN 2 ELSE 1]
    /\ clock = 1
    /\ session = [c \in Clients |->
           IF c = "c1" THEN SessionOf(Admin)
           ELSE IF c = "c2" THEN SessionOf(Ann) ELSE NoUser]
    /\ req = [c \in Clients |-> NoReq]

AssignmentUpdateBodies ==
    {b \in [id : {1, 2}, title : {Absent, "essay", ""},
            due_date : {NoDate, NullDate, Date("fri")}] :
        b.title # Absent \/ b.due_date # NoDate}

NextAssignUpdate ==
    \/ \E body \in AssignmentUpdateBodies : AssignmentUpdate("c2", body)
    \/ AssignmentUpdateStep("c2")
    \/ AssignmentUpdate("c1", [id |-> 1, title |-> "quiz", due_date |-> NoDate])
    \/ AssignmentUpdateStep("c1")
    \/ AssignmentCreate("c2", [course_id |-> 1, title |-> "hw2"])
    \/ AssignmentCreateStep("c2")

SpecAssignUpdate == InitAssignUpdate /\ [][NextAssignUpdate]_vars

----------------------------------------------------------------------------
(* Messaging: Bo (c1) and Ann (c2) write to each other, Bo also to himself,
   and Cy (c3) writes to Bo; each opens conversations and Bo counts his
   unread messages. *)

InitMessages ==
    /\ users = School
    /\ courses = {} /\ enrollments = {} /\ assignments = {}
    /\ submissions = {} /\ messages = {}
    /\ nextId = [t \in Tables |-> IF t = "users" THEN 6 ELSE 1]
    /\ clock = 1
    /\ session = [c \in Clients |->
           IF c = "c1" THEN SessionOf(Bo)
           ELSE IF c = "c2" THEN SessionOf(Ann) ELSE SessionOf(Cy)]
    /\ req = [c \in Clients |-> NoReq]

NextMessages ==
    \/ \E to \in {Ann.id, Bo.id} : Send("c1", [receiver_id |-> to, content |-> "hi"])
    \/ Send("c2", [receiver_id |-> Bo.id, content |-> "hi"])
    \/ Send("c3", [receiver_id |-> Bo.id, content |-> "hi"])
    \/ \E c \in Clients : SendStep(c) \/ ConversationStep(c)
    \/ \E with \in {Ann.id, Bo.id} : Conversation("c1", [id |-> with])
    \/ Conversation("c2", [id |-> Bo.id])
    \/ Conversation("c3", [id |-> Ann.id])
    \/ UnreadCount("c1")

SpecMessages == InitMessages /\ [][NextMessages]_vars

----------------------------------------------------------------------------
(* The grading queue: Bo and Cy have submitted Ann's first assignment, Bo
   before Cy.  Ann (c2) grades them, with a number or with a text, and reads
   her queue; Bo (c1) reads his submissions; Tom (c3) reads his queue. *)

InitGrading ==
    /\ users = School
    /\ courses = {Algebra, Biology}
    /\ enrollments = {[id |-> 1, student_id |-> Bo.id, course_id |-> 1],
                      [id |-> 2, student_id |-> Cy.id, course_id |-> 1]}
    /\ assignments = {Hw1, [id |-> 2, course_id |-> 2, title |-> "lab", due_date |-> Null]}
    /\ submissions = {NewSubmission(1, 1, Bo.id, "answer", 1),
                      NewSubmission(2, 1, Cy.id, "answer", 2)}
    /\ messages = {}
    /\ nextId = [t \in Tables |->
           IF t = "users" THEN 6 ELSE IF t = "messages" THEN 1 ELSE 3]
    /\ clock = 3
    /\ session = [c \in Clients |->
           IF c = "c1" THEN SessionOf(Bo)
           ELSE IF c = "c2" THEN SessionOf(Ann)
           ELSE SessionOf([Tom EXCEPT !.is_approved = TRUE])]
    /\ req = [c \in Clients |-> NoReq]

NextGrading ==
    \/ \E id \in {1, 2} :
           \E grade \in {[kind |-> "number", n |-> 85], [kind |-> "string", s |-> <<"a">>]} :
               Grade("c2", [id |-> id, grade |-> grade, feedback |-> "good"])
    \/ GradeStep("c2")
    \/ \E c \in {"c2", "c3"} : PendingGrading(c) \/ PendingGradingStep(c)
    \/ MySubmissions("c1")
    \/ MySubmissionsStep("c1")

SpecGrading == InitGrading /\ [][NextGrading]_vars

----------------------------------------------------------------------------
(* The gates: nobody is logged in.  Bo (c1) and the master teacher (c2) log
   in and out; c3 never logs in.  Each client calls routes of the four
   routers, with and without a session. *)

InitGate ==
    /\ users = School
    /\ courses = {Algebra, Biology}
    /\ enrollments = {[id |-> 1, student_id |-> Bo.id, course_id |-> 1]}
    /\ assignments = {Hw1}
    /\ submissions = {} /\ messages = {}
    /\ nextId = [t \in Tables |->
           IF t = "users" THEN 6 ELSE IF t = "courses" THEN 3
           ELSE IF t \in {"enrollments", "assignments"} THEN 2 ELSE 1]
    /\ clock = 1
    /\ session = [c \in Clients |-> NoUser]
    /\ req = [c \in Clients |-> NoReq]

NextGate ==
    \/ Login("c1", "bo@x", "secret")
    \/ Login("c2", "root@x", "rootpw")
    \/ \E c \in {"c1", "c2"} : Logout(c)
    \/ \E c \in Clients :
        \/ CourseList(c)
        \/ CourseListStep(c)
        \/ CourseAssignments(c, [id |-> 1])
        \/ CourseAssignmentsStep(c)
        \/ Send(c, [receiver_id |-> Ann.id, content |-> "hi"])
        \/ SendStep(c)
        \/ UnreadCount(c)
        \/ Promote(c, [id |-> Cy.id])

SpecGate == InitGate /\ [][NextGate]_vars

----------------------------------------------------------------------------
(* The admin router: the administrator (c1), the teacher Ann (c2) and the
   student Bo (c3) are logged in, and each calls every route of the router. *)

InitAdminGate ==
    /\ users = School
    /\ courses = {Algebra, Biology}
    /\ enrollments = {[id |-> 1, student_id |-> Bo.id, course_id |-> 1]}
    /\ assignments = {} /\ submissions = {} /\ messages = {}
    /\ nextId = [t \in Tables |->
           IF t = "users" THEN 6 ELSE IF t = "courses" THEN 3
           ELSE IF t = "enrollments" THEN 2 ELSE 1]
    /\ clock = 1
    /\ session = [c \in Clients |->
           IF c = "c1" THEN SessionOf(Admin)
           ELSE IF c = "c2" THEN SessionOf(Ann) ELSE SessionOf(Bo)]
    /\ req = [c \in Clients |-> NoReq]

UserQueries ==
    {[role |-> Absent, approved |-> Absent],
     [role |-> "teacher", approved |-> "false"]}

NextAdminGate ==
    \E c \in Clients :
        \/ Stats(c)
        \/ StatsStep(c)
        \/ \E query \in UserQueries : ListUsers(c, query)
        \/ \E id \in {Tom.id, Cy.id} :
            \/ GetUser(c, [id |-> id])
            \/ EditUser(c, [id |-> id, email |-> Absent, role |-> "teacher"])
            \/ EditUserRefused(c, [id |-> id, email |-> "ann@x", role |-> Absent])
            \/ DeleteUser(c, [id |-> id])
            \/ DeleteUserRefused(c, [id |-> id])
            \/ Approve(c, [id |-> id])
            \/ Reject(c, [id |-> id])
            \/ Promote(c, [id |-> id])
        \/ PendingTeachers(c)
        \/ AdminCourses(c)
        \/ AdminCoursesStep(c)

SpecAdminGate == InitAdminGate /\ [][NextAdminGate]_vars

----------------------------------------------------------------------------
(* Conversations: Bo (c1), Ann (c2) and Cy (c3) are logged in.  Bo and Ann
   have written to each other at the same instant.  They send, Bo also to
   himself, Bo reads his conversation with Ann, and Bo and Ann list their
   conversations. *)

InitConversations ==
    /\ users = School
    /\ courses = {} /\ enrollments = {} /\ assignments = {} /\ submissions = {}
    /\ messages = {NewMessage(1, Bo.id, Ann.id, "hi", 1),
                   NewMessage(2, Ann.id, Bo.id, "yo", 1)}
    /\ nextId = [t \in Tables |->
           IF t = "users" THEN 6 ELSE IF t = "messages" THEN 3 ELSE 1]
    /\ clock = 2
    /\ session = [c \in Clients |->
           IF c = "c1" THEN SessionOf(Bo)
           ELSE IF c = "c2" THEN SessionOf(Ann) ELSE SessionOf(Cy)]
    /\ req = [c \in Clients |-> NoReq]

NextConversations ==
    \/ \E to \in {Ann.id, Bo.id} : Send("c1", [receiver_id |-> to, content |-> "hi"])
    \/ Send("c2", [receiver_id |-> Bo.id, content |-> "yo"])
    \/ Send("c3", [receiver_id |-> Bo.id, content |-> "hey"])
    \/ \E c \in Clients : SendStep(c)
    \/ Conversation("c1", [id |-> Ann.id])
    \/ ConversationStep("c1")
    \/ \E c \in {"c1", "c2"} : Conversations(c) \/ ConversationsStep(c)
    \/ UnreadCount("c1")

SpecConversations == InitConversations /\ [][NextConversations]_vars

----------------------------------------------------------------------------
(* Contacts: Bo (c1), enrolled in Ann's course, Ann (c2) and Cy (c3), who is
   enrolled nowhere, are logged in.  They list their contacts and send
   messages to each other; Cy enrolls in Ann's course. *)

InitContacts ==
    /\ users = School
    /\ courses = {Algebra, Biology}
    /\ enrollments = {[id |-> 1, student_id |-> Bo.id, course_id |-> 1]}
    /\ assignments = {} /\ submissions = {} /\ messages = {}
    /\ nextId = [t \in Tables |->
           IF t = "users" THEN 6 ELSE IF t = "courses" THEN 3
           ELSE IF t = "enrollments" THEN 2 ELSE 1]
    /\ clock = 1
    /\ session = [c \in Clients |->
           IF c = "c1" THEN SessionOf(Bo)
           ELSE IF c = "c2" THEN SessionOf(Ann) ELSE SessionOf(Cy)]
    /\ req = [c \in Clients |-> NoReq]

NextContacts ==
    \/ \E to \in {Ann.id, Tom.id, Cy.id} :
           Send("c1", [receiver_id |-> to, content |-> "hi"])
    \/ \E to \in {Bo.id, Cy.id, Admin.id} :
           Send("c2", [receiver_id |-> to, content |-> "yo"])
    \/ \E c \in Clients : SendStep(c) \/ Contacts(c) \/ ContactsStep(c)
    \/ Enroll("c3", [id |-> 1])

SpecContacts == InitContacts /\ [][NextContacts]_vars

----------------------------------------------------------------------------
(* Two administrators: the administrator (c1) is logged in and may promote
   Ann, who logs in (c2).  Both edit, delete, approve, reject and promote the
   other and Bo. *)

InitAdmins ==
    /\ users = {Admin, Ann, Bo}
    /\ courses = {Algebra}
    /\ enrollments = {} /\ assignments = {} /\ submissions = {} /\ messages = {}
    /\ nextId = [t \in Tables |->
           IF t = "users" THEN 6 ELSE IF t = "courses" THEN 2 ELSE 1]
    /\ clock = 1
    /\ session = [c \in Clients |-> IF c = "c1" THEN SessionOf(Admin) ELSE NoUser]
    /\ req = [c \in Clients |-> NoReq]

NextAdmins ==
    \/ Login("c2", "ann@x", "secret")
    \/ \E c \in {"c1", "c2"} :
           \E id \in {Admin.id, Ann.id, Bo.id} :
               \/ \E role \in {"student", "master_teacher"} :
                      EditUser(c, [id |-> id, email |-> Absent, role |-> role])
               \/ EditUserRefused(c, [id |-> id, email |-> "bo@x", role |-> Absent])
               \/ DeleteUser(c, [id |-> id])
               \/ DeleteUserRefused(c, [id |-> id])
               \/ Approve(c, [id |-> id])
               \/ Reject(c, [id |-> id])
               \/ Promote(c, [id |-> id])

SpecAdmins == InitAdmins /\ [][NextAdmins]_vars

----------------------------------------------------------------------------
(* Sessions and records: the administrator (c1), Ann (c2) and Bo (c3) are
   logged in.  The administrator changes the roles of Ann and Bo, promotes
   and deletes them, while Ann and Bo call routes of every role; Ann logs out
   and in again. *)

InitSnapshot ==
    /\ users = School
    /\ courses = {Algebra, Biology}
    /\ enrollments = {} /\ assignments = {} /\ submissions = {} /\ messages = {}
    /\ nextId = [t \in Tables |->
           IF t = "users" THEN 6 ELSE IF t = "courses" THEN 3 ELSE 1]
    /\ clock = 1
    /\ session = [c \in Clients |->
           IF c = "c1" THEN SessionOf(Admin)
           ELSE IF c = "c2" THEN SessionOf(Ann) ELSE SessionOf(Bo)]
    /\ req = [c \in Clients |-> NoReq]

NextSnapshot ==
    \/ \E role \in {"student", "master_teacher"} :
           EditUser("c1", [id |-> Ann.id, email |-> Absent, role |-> role])
    \/ EditUser("c1", [id |-> Bo.id, email |-> Absent, role |-> "teacher"])
    \/ Promote("c1", [id |-> Ann.id])
    \/ \E id \in {Ann.id, Bo.id} : DeleteUser("c1", [id |-> id])
    \/ Logout("c2")
    \/ Login("c2", "ann@x", "secret")
    \/ \E c \in {"c2", "c3"} :
        \/ CourseCreate(c, [name |-> "calculus"])
        \/ AvailableCourses(c)
    \/ CourseCreateStep("c2")
    \/ \E id \in {1, 2} :
           CourseUpdate("c2", [id |-> id, name |-> "calculus", is_active |-> NotGiven])
    \/ CourseUpdateStep("c2")
    \/ PendingTeachers("c2")

SpecSnapshot == InitSnapshot /\ [][NextSnapshot]_vars

----------------------------------------------------------------------------
(* The whole server: every client may issue every request. *)

Ids == 1..MaxId

Next ==
    \E c \in Clients :
        \/ \E body \in RegisterBodies : Register(c, body)
        \/ RegisterInsert(c)
        \/ RegisterInsertRefused(c)
        \/ \E e \in AuthEmails \cup {""}, p \in AuthPasswords : Login(c, e, p)
        \/ Logout(c)
        \/ \E id \in Ids : \/ Approve(c, [id |-> id])
                            \/ Reject(c, [id |-> id])
                            \/ DeleteUser(c, [id |-> id])
                            \/ DeleteUserRefused(c, [id |-> id])
        \/ CourseCreate(c, [name |-> "algebra"])
        \/ CourseCreateStep(c)
        \/ \E body \in CourseUpdateBodies : CourseUpdate(c, body)
        \/ CourseUpdateStep(c)
        \/ \E id \in Ids : CourseDelete(c, [id |-> id])
        \/ CourseDeleteStep(c)
        \/ \E id \in Ids : Enroll(c, [id |-> id]) \/ Unenroll(c, [id |-> id])
        \/ \E k \in Ids, title \in {Absent, "hw1"} :
               AssignmentCreate(c, [course_id |-> k, title |-> title])
        \/ AssignmentCreateStep(c)
        \/ \E id \in Ids : AssignmentUpdate(c, [id |-> id, title |-> "essay", due_date |-> NoDate])
        \/ AssignmentUpdateStep(c)
        \/ \E id \in Ids : AssignmentDelete(c, [id |-> id])
        \/ AssignmentDeleteStep(c)
        \/ AssignmentDeleteRefused(c)
        \/ \E id \in Ids : ListSubmissions(c, [id |-> id])
        \/ ListSubmissionsStep(c)
        \/ \E body \in SubmitBodies : Submit(c, body)
        \/ SubmitStep(c)
        \/ \E body \in GradeBodies : Grade(c, body)
        \/ GradeStep(c)
        \/ PendingGrading(c) \/ PendingGradingStep(c)
        \/ MySubmissions(c) \/ MySubmissionsStep(c)
        \/ CourseList(c) \/ CourseListStep(c)
        \/ AvailableCourses(c)
        \/ \E id \in Ids : CourseAssignments(c, [id |-> id])
        \/ CourseAssignmentsStep(c)
        \/ \E body \in EditBodies : EditUser(c, body) \/ EditUserRefused(c, body)
        \/ \E id \in Ids : Promote(c, [id |-> id]) \/ GetUser(c, [id |-> id])
        \/ Stats(c) \/ StatsStep(c)
        \/ \E query \in UserQueries : ListUsers(c, query)
        \/ PendingTeachers(c)
        \/ AdminCourses(c) \/ AdminCoursesStep(c)
        \/ \E id \in Ids : \/ Send(c, [receiver_id |-> id, content |-> "hi"])
                            \/ Conversation(c, [id |-> id])
        \/ SendStep(c)
        \/ ConversationStep(c)
        \/ Conversations(c) \/ ConversationsStep(c)
        \/ Contacts(c) \/ ContactsStep(c)
        \/ UnreadCount(c)

Spec == Init /\ [][Next]_vars

----------------------------------------------------------------------------
(* Properties. *)

\* Client c takes the step: its request starts, goes on or is answered.
Stepped(c) == req'[c] # req[c]
\* The step starts a request of client c.
Starts(c) == Stepped(c) /\ req[c].pc = "done"

CourseMutations == {"courseCreate", "courseUpdate", "courseDelete"}
AssignmentMutations == {"assignmentCreate", "assignmentUpdate", "assignmentDelete"}

AssignmentRequests == AssignmentMutations \cup {"listSubmissions", "grade"}

\* The id of the course a request on an assignment or a submission is under
\* (0 when there is none): the course of the body, of the assignment, or of
\* the assignment of the submission.
CourseOfAssignment(id) ==
    LET a == Single({x \in assignments : x.id = id})
    IN  IF a = NoRow THEN 0 ELSE a.course_id
ParentCourse(r) ==
    IF r.op = "assignmentCreate" THEN r.arg.course_id
    ELSE IF r.op = "grade"
    THEN LET sub == Single({x \in submissions : x.id = r.arg.id})
         IN  IF sub = NoRow THEN 0 ELSE CourseOfAssignment(sub.assignment_id)
    ELSE CourseOfAssignment(r.arg.id)
ParentOwned(r) ==
    \E k \in courses : k.id = ParentCourse(r) /\ k.teacher_id = r.su.id
ParentOfAnother(r) ==
    \E k \in courses : k.id = ParentCourse(r) /\ k.teacher_id # r.su.id
\* The body passes the validation that precedes the ownership check.
BodyValid(r) ==
    /\ r.op = "assignmentCreate" => r.arg.title \notin {Absent, ""}
    /\ r.op = "grade" => r.arg.grade.kind \notin {"undefined", "null"}
\* The step shows the client a submission.
Reveals(r) == r.op = "listSubmissions" /\ r.pc = "done" /\ r.status = 200 /\ r.loc.rows # {}

\* C1: a step of an assignment create, update, delete, list-submissions or
\* grade request of a teacher changes an assignment or a submission, or shows
\* a submission, only if the course it is under (for grade: the course of the
\* submission's assignment) has the session's id as teacher id; when that
\* course is another teacher's the request changes nothing and its answer is
\* 403.  A master teacher is never answered 'Not your course'.
C1_TeacherOwnsWhatItMutates ==
    [][\A c \in Clients :
          LET r == req'[c]
          IN  /\ ( /\ Stepped(c) /\ r.op \in AssignmentRequests
                   /\ r.su.role = "teacher" )
                 => /\ ( \/ assignments' # assignments
                         \/ submissions' # submissions
                         \/ Reveals(r) ) => ParentOwned(r)
                    /\ (ParentOfAnother(r) /\ BodyValid(r) /\ r.pc = "done")
                          => r.status = 403
              /\ ( /\ Stepped(c) /\ r.op \in AssignmentRequests
                   /\ r.su.role = "master_teacher" )
                 => ~(r.status = 403 /\ r.msg = "Not your course")]_vars

\* C1's case: a teacher was refused the grading of a submission under
\* another's course, which is ungraded still, and the master teacher has
\* changed an assignment under a course that is not theirs.
C1_Witness ==
    \E c, d \in Clients :
        /\ req[c].op = "grade" /\ req[c].pc = "done" /\ req[c].status = 403
        /\ req[c].msg = "Not your course" /\ req[c].su.role = "teacher"
        /\ \E x \in submissions : x.id = req[c].arg.id /\ x.grade = Null
        /\ req[d].op = "assignmentUpdate" /\ req[d].pc = "done" /\ req[d].status = 200
        /\ req[d].su.role = "master_teacher"
        /\ \E a \in assignments : a.id = req[d].arg.id /\ a.title = req[d].arg.title

\* C2: every step of a course update (PUT) or soft-delete (DELETE) of a
\* teacher who does not own the course answers 403 and leaves the courses
\* table as it is: no row, no is_active, no updated_at is written.
C2_NonOwnerRefused ==
    [][\A c \in Clients :
          LET r == req'[c]
          IN  ( /\ Stepped(c)
                /\ r.op \in {"courseUpdate", "courseDelete"}
                /\ r.su.role = "teacher"
                /\ ~\E k \in courses : k.id = r.arg.id /\ k.teacher_id = r.su.id )
              => (r.pc = "done" /\ r.status = 403 /\ courses' = courses)]_vars

\* C2's case: one teacher was refused the update of a course that exists and
\* is another's, and another teacher the soft-delete of one.
C2_Witness ==
    \E c, d \in Clients :
        /\ req[c].op = "courseUpdate" /\ req[c].pc = "done" /\ req[c].status = 403
        /\ req[c].su.role = "teacher"
        /\ \E k \in courses : k.id = req[c].arg.id /\ k.teacher_id # req[c].su.id
        /\ req[d].op = "courseDelete" /\ req[d].pc = "done" /\ req[d].status = 403
        /\ req[d].su.role = "teacher"
        /\ \E k \in courses : k.id = req[d].arg.id /\ k.teacher_id # req[d].su.id /\ k.is_active

\* C3: a course or assignment create, update or delete issued by
\* a teacher whose stored approval flag is false is answered 403 at once and
\* changes no record.
C3_UnapprovedNeverMutates ==
    [][\A c \in Clients :
          LET r == req'[c]
          IN  ( /\ Starts(c)
                /\ r.op \in CourseMutations \cup AssignmentMutations
                /\ r.su.role = "teacher"
                /\ \E u \in users : u.id = r.su.id /\ ~u.is_approved
                \* the request is well-formed: its target exists
                /\ r.op \in {"courseUpdate", "courseDelete"}
                      => \E k \in courses : k.id = r.arg.id
                /\ r.op \in {"assignmentUpdate", "assignmentDelete"}
                      => \E a \in assignments : a.id = r.arg.id )
              => ( /\ r.pc = "done" /\ r.status = 403
                   /\ courses' = courses /\ assignments' = assignments )]_vars

\* C4: the Approval Gate decides on the stored user row at the time of the
\* request, whatever the session snapshot says: a course or assignment create
\* of a teacher is answered 403 (pending approval), changing nothing, exactly
\* when the row is missing or its flag is false; students and master teachers
\* pass without the lookup.
C4_GateReadsLiveRecord ==
    [][\A c \in Clients :
          LET r == req'[c]
              live == \E u \in users : u.id = r.su.id /\ u.is_approved
          IN  /\ ( /\ Starts(c)
                   /\ r.op \in {"courseCreate", "assignmentCreate"}
                   /\ r.su.role = "teacher" )
                 => /\ (r.pc = "done" /\ r.status = 403 /\ r.msg = PendingMsg) <=> ~live
                    /\ ~live => (courses' = courses /\ assignments' = assignments)
              /\ ( /\ Starts(c)
                   /\ r.op \in {"courseCreate", "assignmentCreate"}
                   /\ r.su.role = "master_teacher" )
                 => ~(r.status = 403 /\ r.msg = PendingMsg)
              /\ \A role \in {"student", "master_teacher"}, flag \in BOOLEAN :
                     ~requireApprovedLooksUp([id |-> r.su.id, role |-> role,
                                              isApproved |-> flag])]_vars

\* C4's case: a teacher whose session was established while she was
\* unapproved has created a course with that session, after the approval.
C4_Witness ==
    \E c \in Clients :
        /\ req[c].op = "courseCreate" /\ req[c].pc = "done" /\ req[c].status = 200
        /\ req[c].su.role = "teacher" /\ ~req[c].su.isApproved
        /\ session[c] = req[c].su

\* The other direction of C4: a teacher who logged in approved is refused.
C4_RejectedAfterLogin ==
    \E c \in Clients :
        /\ req[c].op = "courseCreate" /\ req[c].pc = "done"
        /\ req[c].status = 403 /\ req[c].msg = PendingMsg
        /\ req[c].su.isApproved

\* The enrollment rows of a (student, course) pair, and the submission rows of
\* an (assignment, student) pair.
EnrollmentsOf(rows, studentId, courseId) ==
    {e \in rows : e.student_id = studentId /\ e.course_id = courseId}
SubmissionsOf(rows, assignmentId, studentId) ==
    {x \in rows : x.assignment_id = assignmentId /\ x.student_id = studentId}

\* C5: however the enroll requests of the sessions interleave, the
\* enrollments never hold two rows for one (student, course) pair; and an
\* enroll request of a student made while the pair is enrolled is answered
\* 400 'Already enrolled in this course' and leaves the enrollments (so the
\* course's enrollment count) as they were.
C5_EnrollOncePerPair ==
    [][/\ \A e, f \in enrollments' :
              (e.student_id = f.student_id /\ e.course_id = f.course_id) => e = f
       /\ \A c \in Clients :
              LET r == req'[c]
              IN  ( /\ Starts(c) /\ r.op = "enroll" /\ r.su.role = "student"
                    /\ EnrollmentsOf(enrollments, r.su.id, r.arg.id) # {} )
                  => /\ r.pc = "done" /\ r.status = 400
                     /\ r.msg = "Already enrolled in this course"
                     /\ enrollments' = enrollments]_vars

\* C5's case: two sessions of one student enrolled in the same course; one was
\* answered 200, the other 400, and the pair has one row.
C5_Witness ==
    \E c, d \in Clients :
        /\ c # d
        /\ req[c].op = "enroll" /\ req[c].pc = "done" /\ req[c].status = 200
        /\ req[d].op = "enroll" /\ req[d].pc = "done" /\ req[d].status = 400
        /\ req[d].msg = "Already enrolled in this course"
        /\ req[c].su.id = req[d].su.id /\ req[c].arg.id = req[d].arg.id
        /\ Cardinality(EnrollmentsOf(enrollments, req[c].su.id, req[c].arg.id)) = 1

\* C6: when a student's submit requests run one after another, an
\* (assignment, student) pair never has two submission rows; and the write of
\* a submit made when the pair has a row is answered 200, adds no row, keeps
\* the row's id, sets content to the request's and submitted_at to the time
\* of the write, and leaves grade, feedback and graded_at as they were.
C6_ResubmitUpdatesInPlace ==
    [][/\ \A x, y \in submissions' :
              (x.assignment_id = y.assignment_id /\ x.student_id = y.student_id)
                  => x = y
       /\ \A c \in Clients :
              LET r == req[c]
              IN  ( /\ Stepped(c) /\ r.op = "submit" /\ r.pc = "write"
                    /\ SubmissionsOf(submissions, r.arg.id, r.su.id) # {} )
                  => /\ req'[c].status = 200
                     /\ Cardinality(submissions') = Cardinality(submissions)
                     /\ \A old \in SubmissionsOf(submissions, r.arg.id, r.su.id) :
                            \E new \in submissions' :
                                /\ new.id = old.id
                                /\ new.content = r.arg.content
                                /\ new.submitted_at = <<clock>>
                                /\ new.grade = old.grade
                                /\ new.feedback = old.feedback
                                /\ new.graded_at = old.graded_at]_vars

\* C6's case: the student resubmitted other content after the grading; the
\* one row carries the new content, a later submitted_at and the grade.
C6_Witness ==
    /\ req["c1"].op = "submit" /\ req["c1"].pc = "done" /\ req["c1"].status = 200
    /\ \E x \in submissions :
           /\ submissions = {x}
           /\ x.id = 1 /\ x.content = req["c1"].arg.content
           /\ x.grade = <<85>> /\ x.feedback = <<"good">>
           /\ x.graded_at # Null /\ x.submitted_at # Null
           /\ x.submitted_at[1] > x.graded_at[1]

\* C7: the write of a submit whose lookup found no submission inserts a row
\* for the pair (the assignment still being there), whatever rows the pair
\* has by then: a request that passed the lookup before another's insert
\* inserts a second row.
C7_StaleLookupInserts ==
    [][\A c \in Clients :
          LET r == req[c]
          IN  ( /\ Stepped(c) /\ r.op = "submit" /\ r.pc = "write"
                /\ r.loc.existing = 0
                /\ \E a \in assignments : a.id = r.arg.id )
              => /\ req'[c].status = 200
                 /\ Cardinality(submissions') = Cardinality(submissions) + 1
                 /\ Cardinality(SubmissionsOf(submissions', r.arg.id, r.su.id))
                        = Cardinality(SubmissionsOf(submissions, r.arg.id, r.su.id)) + 1]_vars

\* C7's case: two overlapping submits of one student to one assignment were
\* both answered 200 and the pair has two rows.
C7_Witness ==
    /\ req["c1"].op = "submit" /\ req["c1"].pc = "done" /\ req["c1"].status = 200
    /\ req["c2"].op = "submit" /\ req["c2"].pc = "done" /\ req["c2"].status = 200
    /\ req["c1"].su.id = req["c2"].su.id /\ req["c1"].arg.id = req["c2"].arg.id
    /\ Cardinality(SubmissionsOf(submissions, req["c1"].arg.id, req["c1"].su.id)) = 2

\* C8: every submission row references an assignment that exists and a
\* student who is enrolled in the course of that assignment.
C8_SubmissionsReferenceEnrolled ==
    \A x \in submissions :
        \E a \in assignments :
            /\ a.id = x.assignment_id
            /\ EnrollmentsOf(enrollments, x.student_id, a.course_id) # {}

\* The body of a registration passes the validation.
RegisterBodyValid(body) ==
    body.names /\ body.email # "" /\ Len(body.password) >= 6

\* C9: a registration with a valid body that is answered while a stored user
\* has its email is answered 400 'An account with this email already exists',
\* stores no user and sets no session identity, also when another
\* registration of the email ran between its lookup and its insert.
C9_DuplicateEmailRefused ==
    [][\A c \in Clients :
          LET r == req'[c]
          IN  ( /\ Stepped(c) /\ r.op = "register" /\ r.pc = "done"
                /\ RegisterBodyValid(r.arg)
                /\ \E u \in users : u.email = r.arg.email )
              => /\ r.status = 400
                 /\ r.msg = "An account with this email already exists"
                 /\ users' = users
                 /\ session' = session]_vars

\* C10: a login with an email and a non-empty password, where the email is
\* a stored user's and the password is not that user's or where no user has
\* the email, is answered 401 'Invalid email or password' in both cases and
\* leaves every session as it was.
C10_LoginNoExistenceOracle ==
    [][\A c \in Clients :
          LET r == req'[c]
              known == {u \in users : u.email = r.arg.email}
          IN  ( /\ Stepped(c) /\ r.op = "login" /\ r.pc = "done"
                /\ r.arg.email # "" /\ r.arg.password # ""
                /\ \/ known = {}
                   \/ \A u \in known : u.password # Hash(r.arg.password) )
              => /\ r.status = 401
                 /\ r.msg = "Invalid email or password"
                 /\ session' = session]_vars

\* C10's case: one client has logged in with a stored email and a wrong
\* password, another with an email no user has; their answers are the same.
C10_Witness ==
    \E c, d \in Clients :
        /\ req[c].op = "login" /\ req[c].pc = "done"
        /\ req[d].op = "login" /\ req[d].pc = "done"
        /\ req[c].arg.password # "" /\ req[d].arg.password # ""
        /\ \E u \in users : /\ u.email = req[c].arg.email
                             /\ u.password # Hash(req[c].arg.password)
        /\ req[d].arg.email # ""
        /\ ~\E u \in users : u.email = req[d].arg.email
        /\ req[c].status = 401 /\ req[c].status = req[d].status
        /\ req[c].msg = req[d].msg
        /\ session[c] = NoUser /\ session[d] = NoUser

\* C11: every stored role is one of student, teacher and master_teacher, and
\* a user's role becomes master_teacher only in a step that answers 200 to
\* the promote request, for that user, of a master teacher's session.
C11_MasterTeacherOnlyByPromotion ==
    [][\A u \in users' :
          /\ u.role \in {"student", "teacher", "master_teacher"}
          /\ ( /\ u.role = "master_teacher"
               /\ ~\E v \in users : v.id = u.id /\ v.role = "master_teacher" )
             => \E c \in Clients :
                    /\ Stepped(c)
                    /\ req'[c].op = "promote" /\ req'[c].arg.id = u.id
                    /\ req'[c].su.role = "master_teacher"
                    /\ req'[c].status = 200]_vars

\* C12: the insert of a registration stores one new row whose role is the
\* requested one when that is student or teacher and student otherwise, and
\* whose approval flag is set exactly for a student; the client's session
\* then holds the row's id, role and flag.
C12_RegistrationRole ==
    [][\A c \in Clients :
          LET r == req[c]
              role == IF r.arg.role \in {"student", "teacher"} THEN r.arg.role
                      ELSE "student"
          IN  ( /\ Stepped(c) /\ r.op = "register" /\ r.pc = "insert"
                /\ req'[c].status = 200 )
              => \E row \in users' \ users :
                     /\ users' = users \cup {row}
                     /\ row.role = role
                     /\ row.is_approved = (role = "student")
                     /\ session'[c] = [id |-> row.id, role |-> role,
                                       isApproved |-> (role = "student")]]_vars

\* C12's case: a registration that asked for master_teacher, and one that
\* asked for teacher, have been stored as an approved student and as an
\* unapproved teacher.
C12_Witness ==
    \E c, d \in Clients :
        /\ req[c].op = "register" /\ req[c].pc = "done" /\ req[c].status = 200
        /\ req[c].arg.role = "master_teacher"
        /\ session[c].role = "student" /\ session[c].isApproved
        /\ \E u \in users : u.id = session[c].id /\ u.role = "student" /\ u.is_approved
        /\ req[d].op = "register" /\ req[d].pc = "done" /\ req[d].status = 200
        /\ req[d].arg.role = "teacher"
        /\ session[d].role = "teacher" /\ ~session[d].isApproved
        /\ \E u \in users : u.id = session[d].id /\ u.role = "teacher" /\ ~u.is_approved

\* The request is a master teacher's delete of the own account, or edit of
\* the own account that asks for a role other than master_teacher.
OnOwnAccount(r) ==
    /\ r.su.role = "master_teacher" /\ r.arg.id = r.su.id
    /\ \/ r.op = "deleteUser"
       \/ r.op = "editUser" /\ r.arg.role \notin {Absent, "", "master_teacher"}

\* C13: a master teacher's delete of the own account, and edit of the own
\* account that asks for a role other than master_teacher, are answered 400
\* and change no user row.
C13_NoSelfDeleteNoSelfDemotion ==
    [][\A c \in Clients :
          (Starts(c) /\ req'[c].op \in {"deleteUser", "editUser"} /\ OnOwnAccount(req'[c]))
              => /\ req'[c].pc = "done" /\ req'[c].status = 400
                 /\ users' = users]_vars

\* C13's case: the administrator has been refused the delete of the own
\* account, and Ann, promoted, the demotion of hers; both rows are there as
\* master teachers.
C13_Witness ==
    \E c, d \in Clients :
        /\ req[c].op = "deleteUser" /\ req[c].status = 400 /\ OnOwnAccount(req[c])
        /\ req[d].op = "editUser" /\ req[d].status = 400 /\ OnOwnAccount(req[d])
        /\ \A x \in {c, d} :
               \E u \in users : u.id = req[x].su.id /\ u.role = "master_teacher"

\* C14: an approve or reject request of a master teacher sets the approval
\* flag of the user with the id to true or false, and changes nothing else,
\* when that user's stored role is teacher; otherwise (another role, no such
\* user) it changes no user row.  From any other session it changes none.
C14_ApprovalOnlyOfTeachers ==
    [][\A c \in Clients :
          LET r == req'[c]
              teacher == {u \in users : u.id = r.arg.id /\ u.role = "teacher"}
          IN  (Starts(c) /\ r.op \in {"approve", "reject"})
              => IF r.su.role = "master_teacher" /\ teacher # {}
                 THEN /\ r.status = 200
                      /\ users' = (users \ teacher) \cup
                            {[u EXCEPT !.is_approved = (r.op = "approve")] : u \in teacher}
                 ELSE /\ users' = users
                      /\ r.status # 200]_vars

\* C14's case: a reject has cleared the flag of Ann, a teacher, and the
\* administrator's reject of a student was refused, the student being
\* approved still.
C14_Witness ==
    /\ req["c1"].op = "reject" /\ req["c1"].pc = "done" /\ req["c1"].status = 500
    /\ \E u \in users : u.id = req["c1"].arg.id /\ u.role = "student" /\ u.is_approved
    /\ \E u \in users : u.id = Ann.id /\ u.role = "teacher" /\ ~u.is_approved

\* The courses that are stored inactive.
Inactive(ks) == {k.id : k \in {x \in ks : ~x.is_active}}

\* C15: a course DELETE answered 200 leaves the course row in place with
\* is_active false and changes no enrollment, assignment or submission; and
\* an answer to a student that is read while a course is inactive shows that
\* course neither in the student's course list nor in the available courses,
\* and shows none of its assignments.
C15_SoftDeleteHidesCourse ==
    [][\A c \in Clients :
          LET r == req'[c]
          IN  /\ ( /\ Stepped(c) /\ r.op = "courseDelete" /\ r.pc = "done"
                   /\ r.status = 200 )
                 => /\ {k.id : k \in courses'} = {k.id : k \in courses}
                    /\ r.arg.id \in {k.id : k \in courses} => r.arg.id \in Inactive(courses')
                    /\ enrollments' = enrollments
                    /\ assignments' = assignments
                    /\ submissions' = submissions
              /\ ( /\ Stepped(c) /\ r.pc = "done" /\ r.status = 200
                   /\ r.su.role = "student" )
                 => /\ r.op \in {"courseList", "availableCourses"}
                          => r.loc.rows \cap Inactive(courses) = {}
                    /\ ( /\ r.op = "courseAssignments"
                         /\ r.arg.id \in Inactive(courses) )
                          => r.loc.rows = {}]_vars

\* C16: the update of an assignment update request answered 200 changes the
\* row with the id only: its title is the body's when the body has one and
\* the stored one otherwise, its due date is the body's (null included) when
\* the body has one and the stored one otherwise; and no step of such a
\* request changes the id or the course id of an assignment, or any other
\* assignment.
C16_PartialUpdate ==
    [][\A c \in Clients :
          LET r == req[c]
              body == r.arg
          IN  (Stepped(c) /\ r.op = "assignmentUpdate")
              => /\ \A old \in assignments :
                        \E new \in assignments' :
                            /\ new.id = old.id /\ new.course_id = old.course_id
                            /\ old.id # body.id => new = old
                            /\ (old.id = body.id /\ req'[c].status = 200)
                                  => /\ new.title = IF body.title = Absent
                                                    THEN old.title ELSE body.title
                                     /\ new.due_date =
                                           IF body.due_date = NoDate THEN old.due_date
                                           ELSE IF body.due_date = NullDate THEN Null
                                           ELSE <<body.due_date.d>>
                            /\ (old.id = body.id /\ req'[c].status # 200) => new = old
                 /\ Cardinality(assignments') = Cardinality(assignments)]_vars

\* C16's case: an update that gave a null due date and no title has been
\* answered 200; the assignment has no due date and the title it had.
C16_Witness ==
    \E c \in Clients :
        /\ req[c].op = "assignmentUpdate" /\ req[c].pc = "done" /\ req[c].status = 200
        /\ req[c].arg.title = Absent /\ req[c].arg.due_date = NullDate
        /\ \E a \in assignments :
               a.id = req[c].arg.id /\ a.title = "hw1" /\ a.due_date = Null

\* The unread messages from one user to another.
UnreadFrom(rows, senderId, receiverId) ==
    {m \in rows : m.sender_id = senderId /\ m.receiver_id = receiverId /\ ~m.is_read}

\* The step is the update of client c's conversation fetch.
Marks(c) == Stepped(c) /\ req[c].op = "conversation" /\ req[c].pc = "mark"

\* C17, as the specification words it: when a conversation fetch is
\* answered, no message from the partner to the caller is unread; a step of
\* the fetch changes a message only by setting is_read, and of no message
\* sent by the caller and of no message of another sender than the partner.
C17_FetchLeavesNothingUnread ==
    [][\A c \in Clients :
          LET r == req[c]
          IN  (Stepped(c) /\ r.op = "conversation")
              => /\ (req'[c].pc = "done" /\ req'[c].status = 200)
                        => UnreadFrom(messages', r.arg.id, r.su.id) = {}
                 /\ \A m \in messages :
                        (m.sender_id = r.su.id \/ m.sender_id # r.arg.id)
                            => m \in messages']_vars

\* C17: the update of a conversation fetch leaves unread no message from the
\* partner to the caller that is stored when it runs, so that the caller's
\* unread messages are then those of other senders; it changes only the
\* is_read of messages from the partner to the caller; a fetch that finds
\* none of them unread changes no message; and the fetch is answered 200.
C17_FetchMarksStoredAsRead ==
    [][\A c \in Clients :
          LET r == req[c]
              received == {m \in messages :
                              m.sender_id = r.arg.id /\ m.receiver_id = r.su.id}
          IN  /\ Marks(c)
                 => /\ UnreadFrom(messages', r.arg.id, r.su.id) = {}
                    /\ messages' = (messages \ received) \cup
                           {[m EXCEPT !.is_read = TRUE] : m \in received}
                    /\ UnreadFrom(messages, r.arg.id, r.su.id) = {}
                          => messages' = messages
              /\ (Stepped(c) /\ r.op = "conversation" /\ ~Marks(c))
                 => messages' = messages
              /\ (Stepped(c) /\ r.op = "conversation" /\ req'[c].pc = "done")
                 => req'[c].status = 200]_vars

\* C17's case: Bo has fetched the conversation with Ann twice; her message
\* to him is read, Cy's is unread still, and Bo's count of unread is one.
C17_Witness ==
    /\ req["c1"].op = "conversation" /\ req["c1"].pc = "done"
    /\ req["c1"].status = 200 /\ req["c1"].arg.id = Ann.id
    /\ \E m \in messages : m.id \in req["c1"].loc.rows /\ m.sender_id = Ann.id /\ m.is_read
    /\ UnreadFrom(messages, Ann.id, Bo.id) = {}
    /\ UnreadFrom(messages, Cy.id, Bo.id) # {}

UngradedOf(teacherId) ==
    {x \in submissions :
        /\ x.grade = Null
        /\ \E a \in assignments, k \in courses :
               a.id = x.assignment_id /\ k.id = a.course_id /\ k.teacher_id = teacherId}

\* C19: what pending-grading reads for its answer is the submissions without
\* grade whose assignment is under a course of the caller, each once, in
\* ascending order of submitted_at; it holds no submission that has been
\* graded (whose grading was answered 200, which set graded_at); the answer
\* lists what was read; and my-submissions reads
\* the caller's submissions and its answer shows, of each of them, the grade
\* as read and the name of its course.
C19_PendingGradingQueue ==
    [][\A c \in Clients :
          LET r == req'[c]
          IN  /\ ( /\ Stepped(c) /\ r.op = "pendingGrading"
                   /\ \/ r.pc = "attach"
                      \/ r.pc = "done" /\ r.status = 200 /\ req[c].pc # "attach" )
                 => /\ {r.loc.queue[i] : i \in DOMAIN r.loc.queue}
                           = {x.id : x \in UngradedOf(r.su.id)}
                    /\ Len(r.loc.queue) = Cardinality(UngradedOf(r.su.id))
                    /\ \A i, j \in DOMAIN r.loc.queue :
                           i < j => \A x, y \in submissions :
                                        (x.id = r.loc.queue[i] /\ y.id = r.loc.queue[j])
                                            => x.submitted_at[1] <= y.submitted_at[1]
                    /\ \A x \in submissions :
                           x.graded_at # Null
                               => x.id \notin {r.loc.queue[i] : i \in DOMAIN r.loc.queue}
              /\ ( /\ Stepped(c) /\ r.op = "mySubmissions" /\ r.pc = "done"
                   /\ r.status = 200 )
                 => /\ {shown.id : shown \in r.loc.shown}
                           = {x.id : x \in req[c].loc.subs}
                    /\ \A shown \in r.loc.shown :
                           \A x \in req[c].loc.subs :
                               x.id = shown.id
                                   => /\ shown.grade = x.grade
                                      /\ shown.course_name = CourseNameOf(x)
              /\ ( /\ Stepped(c) /\ r.op = "pendingGrading" /\ req[c].pc = "attach" )
                 => r.pc = "done" /\ r.status = 200 /\ r.loc = req[c].loc
              /\ ( /\ Starts(c) /\ r.op = "mySubmissions" /\ r.pc = "attach" )
                 => r.loc.subs = {x \in submissions : x.student_id = r.su.id}]_vars

\* The requests of routes/auth, which no gate guards.
AuthOps == {"register", "login", "logout"}

\* C20: a request to a route of the routers of courses, assignments, messages
\* and admin whose session holds no user (nobody logged in on it, or it was
\* logged out) is answered at once with 401 'Not authenticated', and nothing
\* of the store is changed or read for it.
C20_NoSession401 ==
    [][\A c \in Clients :
          (Starts(c) /\ req'[c].op \notin AuthOps /\ session[c] = NoUser)
              => /\ req'[c].pc = "done"
                 /\ req'[c].status = 401
                 /\ req'[c].msg = "Not authenticated"
                 /\ req'[c].loc = NoRow
                 /\ UNCHANGED <<db, session>>]_vars

\* The requests of routes/admin.
AdminOps ==
    {"stats", "listUsers", "getUser", "editUser", "deleteUser", "approve", "reject",
     "promote", "pendingTeachers", "adminCourses"}

\* C21: a request to a route of the admin router from a session whose role
\* is student or teacher is answered at once with 403 'Insufficient
\* permissions'; nothing of the store was read for it and nothing is changed.
C21_AdminRouterGated ==
    [][\A c \in Clients :
          (Starts(c) /\ req'[c].op \in AdminOps /\ session[c].role \in {"student", "teacher"})
              => /\ req'[c].pc = "done"
                 /\ req'[c].status = 403
                 /\ req'[c].msg = "Insufficient permissions"
                 /\ req'[c].loc = NoRow
                 /\ UNCHANGED <<db, session>>]_vars

\* Ann, a teacher, was refused a deletion and Bo, a student, the statistics,
\* after the administrator had promoted Cy.
C21_Witness ==
    /\ req["c2"].op = "deleteUser" /\ req["c2"].status = 403
    /\ req["c3"].op = "stats" /\ req["c3"].status = 403
    /\ req["c1"].op = "promote" /\ req["c1"].status = 200
    /\ \E u \in users : u.id = Cy.id /\ u.role = "master_teacher"

\* The users with whom a user has exchanged a message.
Counterparts(userId) ==
    {p \in {m.sender_id : m \in messages} \cup {m.receiver_id : m \in messages} :
        Between(userId, p) # {}}

\* The messages to a user that are not read.
UnreadOf(userId) == {m \in messages : m.receiver_id = userId /\ ~m.is_read}

RECURSIVE SumUnread(_)
SumUnread(convs) ==
    IF convs = <<>> THEN 0 ELSE Head(convs).unread + SumUnread(Tail(convs))

\* C22: the list that the conversations listing makes when it has read the
\* caller's messages has exactly one entry per counterpart; the last message
\* of an entry is a message between the two with the greatest created_at of
\* them all; its unread counter is the number of unread messages from the
\* counterpart to the caller; the entries are in descending order of the time
\* of their last message; the unread counters add up to the number of unread
\* messages to the caller, which is what unread-count answers; and the answer
\* lists what was made.
C22_ConversationsListing ==
    [][\A c \in Clients :
          LET r == req'[c]
              u == r.su.id
              convs == r.loc.convs
          IN  /\ (Stepped(c) /\ r.op = "conversations" /\ r.pc = "partners")
                 => /\ {convs[i].partner_id : i \in DOMAIN convs} = Counterparts(u)
                    /\ Len(convs) = Cardinality(Counterparts(u))
                    /\ \A i \in DOMAIN convs :
                           LET among == Between(u, convs[i].partner_id)
                           IN  /\ \A m \in among : m.created_at <= convs[i].last_at
                               /\ \E m \in among :
                                      /\ m.created_at = convs[i].last_at
                                      /\ m.content = convs[i].last_message
                               /\ convs[i].unread = Cardinality(
                                      {m \in UnreadOf(u) : m.sender_id = convs[i].partner_id})
                    /\ \A i, j \in DOMAIN convs :
                           i < j => convs[i].last_at >= convs[j].last_at
                    /\ SumUnread(convs) = Cardinality(UnreadOf(u))
              /\ (Stepped(c) /\ r.op = "conversations" /\ req[c].pc = "partners")
                 => r.pc = "done" /\ r.status = 200 /\ r.loc = req[c].loc
              /\ (Stepped(c) /\ r.op = "unreadCount" /\ r.status = 200)
                 => r.loc.count = Cardinality(UnreadOf(u))]_vars

\* Bo's listing was answered with more than one entry, the first of them
\* with a last message that he received after his own, and an unread counter
\* above zero.
C22_Witness ==
    /\ req["c1"].op = "conversations" /\ req["c1"].pc = "done"
    /\ req["c1"].status = 200
    /\ Len(req["c1"].loc.convs) >= 2
    /\ req["c1"].loc.convs[1].last_at > 1
    /\ req["c1"].loc.convs[1].last_message # "hi"
    /\ req["c1"].loc.convs[1].unread > 0

\* The contacts rule: the teachers of the courses a student is enrolled in,
\* the students enrolled in the courses of a teacher.
TeacherOfEnrolled(studentId, receiverId) ==
    \E e \in enrollments, k \in courses :
        e.student_id = studentId /\ k.id = e.course_id /\ k.teacher_id = receiverId

StudentOfTaught(teacherId, receiverId) ==
    /\ \E e \in enrollments, k \in courses :
           k.teacher_id = teacherId /\ e.course_id = k.id /\ e.student_id = receiverId
    /\ \E u \in users : u.id = receiverId /\ u.role = "student"

\* C23: a send by a student inserts a message only if the receiver is the
\* teacher of a course the student is enrolled in, and a send by a teacher
\* only if the receiver is a student enrolled in one of the teacher's courses.
C23_SendWithinContacts ==
    [][\A c \in Clients :
          (Stepped(c) /\ req'[c].op = "send" /\ messages' # messages)
              => LET su == req[c].su
                     to == req[c].arg.receiver_id
                 IN  /\ su.role = "student" => TeacherOfEnrolled(su.id, to)
                     /\ su.role = "teacher" => StudentOfTaught(su.id, to)]_vars

\* C24: whatever the sessions that were established as master teacher edit,
\* delete, approve, reject and promote, a user with role master_teacher
\* exists.
C24_MasterTeacherRemains ==
    \E u \in users : u.role = "master_teacher"

\* The roles that the role gate of a route lets pass.
RoleGate(op) ==
    IF op \in AdminOps THEN {"master_teacher"}
    ELSE IF op \in {"courseCreate", "courseUpdate", "courseDelete"} THEN TeacherRoles
    ELSE IF op = "availableCourses" THEN {"student"}
    ELSE Roles

\* What the role gate answers and what changes a session depend on the
\* session alone: a request of a logged-in session is answered 403
\* 'Insufficient permissions' exactly when the role of the session is not
\* one the route lets pass, whatever the stored row says and whether it
\* exists; ownership is asked of no session but a teacher's; and a session
\* changes by a login, registration or logout of its client only.
DecidedOnSession(c) ==
    LET r == req'[c]
    IN  /\ (Starts(c) /\ r.op \notin AuthOps /\ session[c] # NoUser)
           => /\ r.su = session[c]
              /\ (r.pc = "done" /\ r.status = 403 /\ r.msg = "Insufficient permissions")
                     <=> r.su.role \notin RoleGate(r.op)
        /\ (Stepped(c) /\ r.status = 403 /\ r.msg = "Not your course")
               => r.su.role = "teacher"
        /\ session'[c] # session[c]
               => /\ r.op \in AuthOps /\ r.pc = "done"
                  /\ \A d \in Clients \ {c} : req'[d] = req[d]

\* A request was refused for the approval of its account.
RefusedPending(c) ==
    Stepped(c) /\ req'[c].status = 403 /\ req'[c].msg = PendingMsg

\* C25, as the specification words it: the role gate and the ownership
\* bypass decide on the session alone, and neither a change of the role nor
\* the deletion of the stored row alters what the session may do: no request
\* of a session is refused because its row is gone.
C25_RecordNeverMatters ==
    [][\A c \in Clients :
          /\ DecidedOnSession(c)
          /\ RefusedPending(c) => \E u \in users : u.id = req'[c].su.id]_vars

\* C25: the role gate and the ownership bypass decide on the session alone,
\* which changes by login, registration and logout only, so that a change of
\* the stored role alters nothing for the session; the approval gate, which
\* a teacher's session alone meets, refuses it when the stored row is gone or
\* not approved.
C25_RoleFromSession ==
    [][\A c \in Clients :
          /\ DecidedOnSession(c)
          /\ RefusedPending(c)
                 => /\ req'[c].su.role = "teacher"
                    /\ ~\E u \in users : u.id = req'[c].su.id /\ u.is_approved]_vars

\* Ann's session, a teacher's, has created a course while her stored role
\* was student; Bo's session, a student's, was refused the creation while
\* his stored role was teacher.
C25_Witness ==
    /\ req["c2"].op = "courseCreate" /\ req["c2"].status = 200
    /\ req["c2"].su.role = "teacher" /\ session["c2"].role = "teacher"
    /\ \E u \in users : u.id = Ann.id /\ u.role = "student"
    /\ req["c3"].op = "courseCreate" /\ req["c3"].status = 403
    /\ \E u \in users : u.id = Bo.id /\ u.role = "teacher"

=============================================================================
